---- MODULE Spec2Model ----
(***************************************************************************)
(* A model of the entity_data crate: the archetype column store            *)
(* (src/src/archetype.rs), the archetype registry                          *)
(* (src/src/entity_storage.rs), the system scheduler and the access a      *)
(* system handler is given to the components (src/src/system.rs,           *)
(* src/src/system/component.rs).                                           *)
(*                                                                         *)
(* Identifiers are 0-based as in the Rust code; TLA+ sequences are 1-based,*)
(* so slot `id` of a column is element id + 1 of the column's sequence.    *)
(* A component value is one abstract cell; a column is a sequence of cells.*)
(***************************************************************************)
EXTENDS Integers, Sequences, FiniteSets, TLC

(***************************************************************************)
(* Bounds of the model.                                                    *)
(***************************************************************************)
\* The number of calls (add, remove, get_mut) made on one store.
MaxOps == 4

\* The values a component can hold.
Vals == {0, 1}

(***************************************************************************)
(* Generic helpers.                                                        *)
(***************************************************************************)
Min(S) == CHOOSE x \in S : \A y \in S : x <= y

Range(s) == {s[i] : i \in 1..Len(s)}

\* Option<T>: None is the empty sequence, Some(v) the one-element sequence.
None == <<>>

Some(v) == <<v>>

\* HashMap::insert / Entry::insert: bind key k to v, replacing any binding.
MapInsert(m, k, v) == [x \in (DOMAIN m) \cup {k} |-> IF x = k THEN v ELSE m[x]]

EmptyMap == [x \in {} |-> 0]

RECURSIVE SortedInsert(_, _)
SortedInsert(s, x) ==
    IF s = <<>> THEN <<x>>
    ELSE IF x <= Head(s) THEN <<x>> \o s
    ELSE <<Head(s)>> \o SortedInsert(Tail(s), x)

RECURSIVE SortUnstable(_)
SortUnstable(s) == IF s = <<>> THEN <<>> ELSE SortedInsert(SortUnstable(Tail(s)), Head(s))

\* The orders a HashMap or HashSet may iterate the elements of S in.
RECURSIVE Perms(_)
Perms(S) ==
    IF S = {} THEN {<<>>}
    ELSE UNION {{<<x>> \o q : q \in Perms(S \ {x})} : x \in S}

RECURSIVE AscendingSeq(_)
AscendingSeq(S) == IF S = {} THEN <<>> ELSE <<Min(S)>> \o AscendingSeq(S \ {Min(S)})

(***************************************************************************)
(* Component types and state types (the archetypes of src/src/tests.rs).  *)
(* TypeId of Comp1 is 1, of Comp2 is 2.  Comp2 owns a Vec, so it needs     *)
(* drop; Comp1 is Copy.                                                    *)
(***************************************************************************)
CompTypes == {1, 2}

NeedsDrop(c) == c = 2

StateTypes == {"Archetype1", "Archetype12", "Archetype2"}

component_type_ids(S) ==
    CASE S = "Archetype1" -> <<1>>
      [] S = "Archetype12" -> <<1, 2>>
      [] S = "Archetype2" -> <<2>>
      [] S = "Archetype21" -> <<2, 1>>

component_infos(S) ==
    [i \in 1..Len(component_type_ids(S)) |->
        [type_id |-> component_type_ids(S)[i],
         needs_drop |-> NeedsDrop(component_type_ids(S)[i])]]

\* The states a caller can pass to add: a state type and a value per field.
States ==
    UNION {{[ty |-> S, vals |-> f] : f \in [Range(component_type_ids(S)) -> Vals]}
           : S \in StateTypes}

\* The states of every state type, a struct with the fields of Archetype12
\* in the other order included.
AllStates ==
    UNION {{[ty |-> S, vals |-> f] : f \in [Range(component_type_ids(S)) -> Vals]}
           : S \in StateTypes \cup {"Archetype21"}}

(***************************************************************************)
(* ArchetypeLayout: the sorted vector of type ids.                         *)
(***************************************************************************)
\* A layout that keeps the type ids in the order given.
ArchetypeLayoutNew_unsorted(type_ids) == type_ids

ArchetypeLayoutNew(type_ids) == SortUnstable(type_ids)

\* The hasher fed a vector of type ids: a value determined by the ids and
\* their order, kept to HashBits bits.
HashBits == 6

RECURSIVE AHash(_)
AHash(type_ids) ==
    IF type_ids = <<>> THEN 7
    ELSE (31 * AHash(SubSeq(type_ids, 1, Len(type_ids) - 1)) + type_ids[Len(type_ids)])
            % (2 ^ HashBits)

\* A hash_val taken of the type ids as given, before the sort.
hash_val_before_sort(type_ids) == AHash(type_ids)

\* ArchetypeLayout::new: the hash_val of the layout.
hash_val(type_ids) == AHash(ArchetypeLayoutNew(type_ids))

(***************************************************************************)
(* Archetype (src/src/archetype.rs).                                       *)
(***************************************************************************)
\* Archetype::MAX_ENTITIES is u32::MAX - 1 in the source.  TLC's integers are
\* 32 bits wide, so the capacity is scaled down to a bound of the model.
MAX_ENTITIES == 6

ArchetypeNew(comp_infos) ==
    [components |-> [i \in 1..Len(comp_infos) |-> [info |-> comp_infos[i], data |-> <<>>]],
     components_by_types |->
        [t \in {comp_infos[i].type_id : i \in 1..Len(comp_infos)} |->
            (CHOOSE i \in 1..Len(comp_infos) : comp_infos[i].type_id = t) - 1],
     free_slots |-> {},
     total_slot_count |-> 0,
     components_need_drops |-> \E i \in 1..Len(comp_infos) : comp_infos[i].needs_drop]

\* Archetype::allocate_slot.  ok = FALSE is the panic "out of slots".
allocate_slot(arch) ==
    IF arch.free_slots # {}
    THEN [ok |-> TRUE, id |-> Min(arch.free_slots),
          arch |-> [arch EXCEPT !.free_slots = @ \ {Min(arch.free_slots)}]]
    ELSE IF arch.total_slot_count < MAX_ENTITIES
    THEN [ok |-> TRUE, id |-> arch.total_slot_count,
          arch |-> [arch EXCEPT !.total_slot_count = @ + 1]]
    ELSE [ok |-> FALSE, id |-> 0, arch |-> arch]

OutOfSlots == "out of slots"

\* u32::MAX at the scale of the model: MAX_ENTITIES is u32::MAX - 1.
U32_MAX == MAX_ENTITIES + 1

\* ArchetypeEntities::MAX_BITVEC_BITS on a 64-bit target (usize::MAX >> 3):
\* above u32::MAX.
MAX_BITVEC_BITS == 2 * U32_MAX

\* ArchetypeEntities::MAX_ENTITIES = const_min(MAX_SLOTS, MAX_BITVEC_BITS).
ENTITIES_MAX_ENTITIES == Min({U32_MAX - 1, MAX_BITVEC_BITS})

\* ArchetypeEntities::allocate_slot on the bit vector occupied (a sequence of
\* booleans, slot i at index i + 1).  ok = FALSE is the panic "Out of slots".
entities_allocate_slot(occupied) ==
    LET zeros == {i \in 1..Len(occupied) : ~occupied[i]}
    IN  IF zeros # {}
        THEN [ok |-> TRUE, id |-> Min(zeros) - 1,
              occupied |-> [occupied EXCEPT ![Min(zeros)] = TRUE]]
        ELSE IF Len(occupied) < ENTITIES_MAX_ENTITIES
        THEN [ok |-> TRUE, id |-> Len(occupied), occupied |-> Append(occupied, TRUE)]
        ELSE [ok |-> FALSE, id |-> 0, occupied |-> occupied]

\* ArchetypeEntities::free: the value returned and the bit vector after.
entities_free(occupied, entity_id) ==
    IF entity_id >= Len(occupied) THEN [ret |-> FALSE, occupied |-> occupied]
    ELSE [ret |-> occupied[entity_id + 1],
          occupied |-> [occupied EXCEPT ![entity_id + 1] = FALSE]]

\* ArchetypeEntities::contains: occupied_ids.get(id).map_or(false, |v| *v).
entities_contains(occupied, entity_id) ==
    IF entity_id < Len(occupied) THEN occupied[entity_id + 1] ELSE FALSE

\* An iterator over every index of the bit vector.
RECURSIVE iter_every_index(_)
iter_every_index(occupied) ==
    IF occupied = <<>> THEN <<>>
    ELSE Append(iter_every_index(SubSeq(occupied, 1, Len(occupied) - 1)),
                Len(occupied) - 1)

\* ArchetypeEntities::iter: EntitiesIter over iter_ones, the items it yields
\* until None.
RECURSIVE iter_ones(_)
iter_ones(occupied) ==
    IF occupied = <<>> THEN <<>>
    ELSE LET before == iter_ones(SubSeq(occupied, 1, Len(occupied) - 1))
         IN  IF occupied[Len(occupied)] THEN Append(before, Len(occupied) - 1) ELSE before

\* ArchetypeEntities::count: count_ones.
RECURSIVE entities_count(_)
entities_count(occupied) ==
    IF occupied = <<>> THEN 0
    ELSE (IF Head(occupied) THEN 1 ELSE 0) + entities_count(Tail(occupied))

VARIABLE arch_entities   \* an ArchetypeEntities: its occupied_ids

\* ArchetypeEntities::default().
EntitiesNew == arch_entities = <<>>

\* The write of one component in Archetype::add_entity_raw: the column is
\* extended when the slot is the last slot, else the cell is overwritten.
\* An overwrite at or past the end of the column is outside the buffer's
\* initialised part and leaves the column as it is (see wild_writes).
write_component(comp, entity_id, total_slot_count, v) ==
    IF entity_id = total_slot_count - 1
    THEN [comp EXCEPT !.data = Append(@, v)]
    ELSE IF entity_id < Len(comp.data)
    THEN [comp EXCEPT !.data[entity_id + 1] = v]
    ELSE comp

\* Archetype::add_entity_raw.  vals maps each type id of the state to the
\* value of that field.
add_entity_raw(arch, vals) ==
    LET al == allocate_slot(arch)
        a1 == al.arch
    IN  [ok |-> al.ok, id |-> al.id,
         arch |-> [a1 EXCEPT !.components =
                      [i \in DOMAIN @ |->
                          write_component(@[i], al.id, a1.total_slot_count,
                                          vals[@[i].info.type_id])]]]

\* The values add_entity_raw copies past the end of a column
\* (ptr::copy_nonoverlapping to a slot the column never held).
wild_writes(arch, vals) ==
    LET al == allocate_slot(arch)
    IN  {vals[arch.components[i].info.type_id] :
            i \in {j \in DOMAIN arch.components :
                      /\ al.id # al.arch.total_slot_count - 1
                      /\ al.id >= Len(arch.components[j].data)}}

\* is_present without the test of free_slots.
is_present_ignoring_free_slots(arch, entity_id) == entity_id < arch.total_slot_count

is_present(arch, entity_id) ==
    entity_id < arch.total_slot_count /\ entity_id \notin arch.free_slots

\* get that reads the first column when the archetype has no column of C.
ArchetypeGet_first_column_fallback(arch, c, entity_id) ==
    IF ~is_present(arch, entity_id) THEN None
    ELSE LET k == IF c \in DOMAIN arch.components_by_types
                  THEN arch.components_by_types[c] + 1 ELSE 1
             data == arch.components[k].data
         IN  IF entity_id < Len(data) THEN Some(data[entity_id + 1]) ELSE None

\* Archetype::get::<C>.
ArchetypeGet(arch, c, entity_id) ==
    IF ~is_present(arch, entity_id) THEN None
    ELSE IF c \notin DOMAIN arch.components_by_types THEN None
    ELSE LET data == arch.components[arch.components_by_types[c] + 1].data
         IN  IF entity_id < Len(data) THEN Some(data[entity_id + 1]) ELSE None

\* A store through a reference into the first column, whatever C is.
ArchetypeSet_first_column(arch, c, entity_id, v) ==
    IF ArchetypeGet(arch, c, entity_id) = None THEN arch
    ELSE [arch EXCEPT !.components[1].data[entity_id + 1] = v]

\* Archetype::get_mut::<C> followed by a store of v through the reference.
ArchetypeSet(arch, c, entity_id, v) ==
    IF ArchetypeGet(arch, c, entity_id) = None THEN arch
    ELSE [arch EXCEPT !.components[arch.components_by_types[c] + 1].data[entity_id + 1] = v]

\* BitSet::insert returns true when the value was not in the set before.
BitSetInsertResult(set, value) == value \notin set

\* The value Archetype::remove returns.
remove_result(arch, entity_id) ==
    (entity_id < arch.total_slot_count) /\ ~BitSetInsertResult(arch.free_slots, entity_id)

\* The archetype after Archetype::remove: free_slots.insert runs always.
remove_arch(arch, entity_id) == [arch EXCEPT !.free_slots = @ \cup {entity_id}]

\* The indices (0-based) of the columns whose component needs a drop.
drop_columns(arch) ==
    {i - 1 : i \in {j \in DOMAIN arch.components : arch.components[j].info.needs_drop}}

\* The indices (0-based) of the columns whose drop_func Archetype::remove calls.
remove_drops(arch, entity_id) ==
    IF remove_result(arch, entity_id) /\ arch.components_need_drops
    THEN drop_columns(arch)
    ELSE {}

\* Drop for Archetype: the <<column, slot>> pairs whose drop_func it calls.
ArchetypeDrop(arch) ==
    IF ~arch.components_need_drops THEN {}
    ELSE {<<k, id>> \in drop_columns(arch) \X (0..(arch.total_slot_count - 1)) :
             id \notin arch.free_slots}

\* A map of call counts with one more call for every cell of cells.
CountCalls(calls, cells) ==
    [x \in (DOMAIN calls) \cup cells |->
        (IF x \in DOMAIN calls THEN calls[x] ELSE 0) + (IF x \in cells THEN 1 ELSE 0)]

\* Archetype::len: a usize subtraction, which wraps in a release build (and
\* panics in a debug build).  A usize is kept in signed representation: a
\* negative n stands for 2^64 + n, so sums of such values stay exact modulo 2^64.
ArchetypeLen(arch) == arch.total_slot_count - Cardinality(arch.free_slots)

(***************************************************************************)
(* EntityStorage (src/src/entity_storage.rs).                              *)
(***************************************************************************)
VARIABLES
    archetypes,                   \* Vec<ArchetypeStorage>
    archetypes_by_types,          \* HashMap<TypeId, usize>
    archetypes_by_layout,         \* HashMap<ArchetypeLayout, usize>
    component_to_archetypes_map,  \* HashMap<TypeId, Vec<usize>>
    drop_calls,                   \* <<archetype, column, slot>> -> number of drop_func calls
    add_calls,                    \* <<archetype, column, slot>> -> number of values added
    n_ops,                        \* number of calls made
    n_add,                        \* number of add calls made
    n_remove_true,                \* number of remove calls that returned true
    last                          \* the last call: its operation, arguments and result

storeVars == <<archetypes, archetypes_by_types, archetypes_by_layout,
               component_to_archetypes_map, drop_calls, add_calls, n_ops,
               n_add, n_remove_true, last>>


EntityId(archetype_id, id) == [archetype_id |-> archetype_id, id |-> id]

\* EntityId::NULL: both halves u32::MAX.
NULL == EntityId(U32_MAX, U32_MAX)

\* The entity ids a caller probes with: every archetype index up to one past
\* the last archetype and every slot up to one past the largest slot count, so
\* ids of archetypes and slots never allocated are among them.
ProbeIds ==
    LET totals == {archetypes[a].total_slot_count : a \in 1..Len(archetypes)} \cup {0}
        top == CHOOSE t \in totals : \A u \in totals : u <= t
    IN  {EntityId(a, i) : a \in 0..Len(archetypes), i \in 0..(top + 1)}

\* EntityStorage::get_or_create_archetype: the index it returns.
\* get_or_create_archetype creating an archetype at every call.
get_or_create_archetype_id_always_new(state) == Len(archetypes)

get_or_create_archetype_id(state) ==
    IF state.ty \in DOMAIN archetypes_by_types THEN archetypes_by_types[state.ty]
    ELSE LET layout == ArchetypeLayoutNew(component_type_ids(state.ty))
         IN  IF layout \in DOMAIN archetypes_by_layout THEN archetypes_by_layout[layout]
             ELSE Len(archetypes)

\* AllEntities::contains / EntityStorage::contains.
Contains(entity) ==
    IF entity.archetype_id < Len(archetypes)
    THEN is_present(archetypes[entity.archetype_id + 1], entity.id)
    ELSE FALSE

\* EntityStorage::get::<C>.
Get(entity, c) ==
    IF entity.archetype_id < Len(archetypes)
    THEN ArchetypeGet(archetypes[entity.archetype_id + 1], c, entity.id)
    ELSE None

RECURSIVE SumLen(_, _)
SumLen(archs, acc) ==
    IF archs = <<>> THEN acc
    ELSE SumLen(Tail(archs), acc + ArchetypeLen(Head(archs)))

\* EntityStorage::count_entities / AllEntities::count.
count_entities == SumLen(archetypes, 0)

\* ArchetypeStorage::entities: the slots the archetype holds as occupied.
occupied_ids(arch) == {id \in 0..(arch.total_slot_count - 1) : is_present(arch, id)}

WrongStateType == "WrongStateType"

\* The state type an archetype was created from: its infos are that type's
\* fields in declaration order.
state_type_id(arch) ==
    CHOOSE ty \in StateTypes \cup {"Archetype21"} :
        component_type_ids(ty) =
            [i \in 1..Len(arch.components) |-> arch.components[i].info.type_id]

\* The record stored at a slot: the value of every component of the slot.
stored_record(arch, id) ==
    [c \in DOMAIN arch.components_by_types |-> ArchetypeGet(arch, c, id)]

\* ArchetypeStorage::get_state::<S> and get_state_mut::<S>: the outcomes the
\* call can have.  It fails with the wrong-state-type error when S is not the
\* type the archetype was created from and is None for an unoccupied slot;
\* which of the two comes first when both apply is not fixed.
archetype_get_state(arch, S, id) ==
    (IF state_type_id(arch) # S
        THEN {[panic |-> WrongStateType, ref |-> None]} ELSE {})
    \cup (IF id \notin occupied_ids(arch)
        THEN {[panic |-> "", ref |-> None]} ELSE {})
    \cup (IF state_type_id(arch) = S /\ id \in occupied_ids(arch)
        THEN {[panic |-> "", ref |-> Some(stored_record(arch, id))]} ELSE {})

\* get_state that indexes the vector of archetypes: out of range is a panic.
get_state_indexing(entity_id, S) ==
    IF entity_id.archetype_id < Len(archetypes)
    THEN archetype_get_state(archetypes[entity_id.archetype_id + 1], S, entity_id.id)
    ELSE {[panic |-> "index out of bounds", ref |-> None]}

\* EntityStorage::get_state::<S> and get_state_mut::<S>.
get_state(entity_id, S) ==
    IF entity_id.archetype_id < Len(archetypes)
    THEN archetype_get_state(archetypes[entity_id.archetype_id + 1], S, entity_id.id)
    ELSE {[panic |-> "", ref |-> None]}

\* ArchetypeEntities::iter: the occupied slots, ascending (iter_ones).
EntitiesIter(arch) == AscendingSeq(occupied_ids(arch))

\* AllEntitiesIter::next until it returns None, from archetype curr_arch_id.
RECURSIVE AllEntitiesIterFrom(_)
AllEntitiesIterFrom(curr_arch_id) ==
    IF curr_arch_id >= Len(archetypes) THEN <<>>
    ELSE LET curr_iter == EntitiesIter(archetypes[curr_arch_id + 1])
         IN  [i \in 1..Len(curr_iter) |-> EntityId(curr_arch_id, curr_iter[i])]
                 \o AllEntitiesIterFrom(curr_arch_id + 1)

\* AllEntities::iter: the ids it yields.
AllEntitiesIter == AllEntitiesIterFrom(0)

\* Every cell of every column of the store, as <<archetype, column, slot>>.
AllCells ==
    {<<a, k, s>> \in (0..(Len(archetypes) - 1)) \X (0..1) \X (0..(MaxOps + MaxOps)) :
        /\ k < Len(archetypes[a + 1].components)
        /\ s < Len(archetypes[a + 1].components[k + 1].data)}

StoreInit ==
    /\ archetypes = <<>>
    /\ archetypes_by_types = EmptyMap
    /\ archetypes_by_layout = EmptyMap
    /\ component_to_archetypes_map = EmptyMap
    /\ drop_calls = EmptyMap
    /\ add_calls = EmptyMap
    /\ n_ops = 0
    /\ n_add = 0
    /\ n_remove_true = 0
    /\ last = [op |-> "new"]

\* The registry after get_or_create_archetype(state).
\* The loop that maps the components of a new archetype to it with only
\* the first component mapped.
push_first_component(map, infos, new_arch_id) ==
    LET c == infos[1].type_id
    IN  [x \in (DOMAIN map) \cup {c} |->
            IF x = c THEN Append(IF c \in DOMAIN map THEN map[c] ELSE <<>>, new_arch_id)
            ELSE map[x]]

\* for info in &archetype.components { map.entry(type_id).or_insert().push(id) }
push_components(map, infos, new_arch_id) ==
    LET tys == {infos[i].type_id : i \in 1..Len(infos)}
    IN  [c \in (DOMAIN map) \cup tys |->
            LET old == IF c \in DOMAIN map THEN map[c] ELSE <<>>
            IN  IF c \in tys THEN Append(old, new_arch_id) ELSE old]

Registered(state) ==
    LET arch_id == get_or_create_archetype_id(state)
        layout == ArchetypeLayoutNew(component_type_ids(state.ty))
        infos == component_infos(state.ty)
        is_new == arch_id = Len(archetypes)
    IN  [archetypes |-> IF is_new THEN Append(archetypes, ArchetypeNew(infos)) ELSE archetypes,
         by_types |-> MapInsert(archetypes_by_types, state.ty, arch_id),
         by_layout |-> IF is_new THEN MapInsert(archetypes_by_layout, layout, arch_id)
                       ELSE archetypes_by_layout,
         comp_map |->
            IF is_new
            THEN push_components(component_to_archetypes_map, infos, arch_id)
            ELSE component_to_archetypes_map]

\* One state of every state type: the registry does not look at the values.
RegistryStates == {state \in AllStates : \A c \in DOMAIN state.vals : state.vals[c] = 0}

\* The component values add_entity_raw reads from a state through the
\* ranges (field offsets) of the archetype's infos, which are those of the
\* state type that created the archetype.  For a state type with the same
\* fields in the same order they are the state's values; for another struct
\* the offsets of the fields are the compiler's choice, and a range that is
\* not the field's own reads other bytes of the state.
state_as_read(arch, state) ==
    IF [i \in 1..Len(arch.components) |-> arch.components[i].info.type_id]
            = component_type_ids(state.ty)
    THEN {state.vals}
    ELSE {state.vals} \cup [Range(component_type_ids(state.ty)) -> Vals]

\* EntityStorage::add(state).  A write of add_entity_raw past the end of a
\* column is undefined behaviour: it lands outside every column, or on any
\* cell of any column of the store.
Add(state) ==
    /\ n_ops < MaxOps
    /\ n_ops' = n_ops + 1
    /\ \E vals \in state_as_read(
                Registered(state).archetypes[get_or_create_archetype_id(state) + 1], state) :
       LET reg == Registered(state)
           arch_id == get_or_create_archetype_id(state)
           res == add_entity_raw(reg.archetypes[arch_id + 1], vals)
           wild == wild_writes(reg.archetypes[arch_id + 1], vals)
           added == [reg.archetypes EXCEPT ![arch_id + 1] = res.arch]
       IN  /\ res.ok
           /\ \/ archetypes' = added
              \/ /\ wild # {}
                 /\ \E cell \in AllCells, v \in wild :
                       archetypes' =
                          [added EXCEPT ![cell[1] + 1].components[cell[2] + 1].data[cell[3] + 1] = v]
           /\ archetypes_by_types' = reg.by_types
           /\ archetypes_by_layout' = reg.by_layout
           /\ component_to_archetypes_map' = reg.comp_map
           /\ last' = [op |-> "add", state |-> state,
                       entity |-> EntityId(arch_id, res.id),
                       wild |-> wild # {}]
           /\ add_calls' = CountCalls(add_calls,
                                      {<<arch_id, k, res.id>> : k \in drop_columns(res.arch)})
    /\ n_add' = n_add + 1
    /\ UNCHANGED <<drop_calls, n_remove_true>>

\* StaticArchetype::into_any: AnyState(Box::new(self)).
into_any(state) == [boxed |-> state]

\* The state add::<AnyState> sees through AnyState's ArchetypeState methods:
\* ty(), metadata() and as_ptr() are those of the boxed state.
AnyStateAsState(any) == [ty |-> any.boxed.ty, vals |-> any.boxed.vals]

\* EntityStorage::add(state.into_any()).
AddAny(state) == Add(AnyStateAsState(into_any(state)))

\* EntityStorage::add(state) when allocate_slot panics: the archetype was
\* looked up or created before, the panic unwinds out of add.
AddOutOfSlots(state) ==
    /\ n_ops < MaxOps
    /\ n_ops' = n_ops + 1
    /\ LET reg == Registered(state)
           arch_id == get_or_create_archetype_id(state)
           res == add_entity_raw(reg.archetypes[arch_id + 1], state.vals)
       IN  /\ ~res.ok
           /\ archetypes' = reg.archetypes
           /\ archetypes_by_types' = reg.by_types
           /\ archetypes_by_layout' = reg.by_layout
           /\ component_to_archetypes_map' = reg.comp_map
           /\ last' = [op |-> "add", state |-> state, panic |-> OutOfSlots,
                       archetype_id |-> arch_id]
    /\ n_add' = n_add + 1
    /\ UNCHANGED <<drop_calls, add_calls, n_remove_true>>

\* EntityStorage::remove(entity).
Remove(entity) ==
    /\ n_ops < MaxOps
    /\ n_ops' = n_ops + 1
    /\ IF entity.archetype_id < Len(archetypes)
       THEN LET arch == archetypes[entity.archetype_id + 1]
                ret == remove_result(arch, entity.id)
                cells == {<<entity.archetype_id, k, entity.id>> : k \in remove_drops(arch, entity.id)}
            IN  /\ archetypes' = [archetypes EXCEPT ![entity.archetype_id + 1] =
                                     remove_arch(arch, entity.id)]
                /\ drop_calls' = CountCalls(drop_calls, cells)
                /\ n_remove_true' = n_remove_true + (IF ret THEN 1 ELSE 0)
                /\ last' = [op |-> "remove", entity |-> entity, ret |-> ret,
                            was_present |-> Contains(entity)]
       ELSE /\ last' = [op |-> "remove", entity |-> entity, ret |-> FALSE,
                        was_present |-> FALSE]
            /\ UNCHANGED <<archetypes, drop_calls, n_remove_true>>
    /\ UNCHANGED <<archetypes_by_types, archetypes_by_layout,
                   component_to_archetypes_map, add_calls, n_add>>

\* EntityStorage::get_mut::<C>(entity) and a store of v through the reference.
GetMut(entity, c, v) ==
    /\ n_ops < MaxOps
    /\ n_ops' = n_ops + 1
    /\ Get(entity, c) # None
    /\ archetypes' = [archetypes EXCEPT ![entity.archetype_id + 1] =
                         ArchetypeSet(@, c, entity.id, v)]
    /\ last' = [op |-> "get_mut", entity |-> entity, comp |-> c, val |-> v]
    /\ UNCHANGED <<archetypes_by_types, archetypes_by_layout,
                   component_to_archetypes_map, drop_calls, add_calls, n_add,
                   n_remove_true>>

(***************************************************************************)
(* System scheduling (src/src/system.rs).                                  *)
(* A system is its access declaration: a map from component type to        *)
(* CompMutability (TRUE is with_mut, FALSE is with).  Systems are numbered *)
(* from 0 by their position in the slice given to dispatch.                *)
(***************************************************************************)
\* The length of the slice given to dispatch and dispatch_par.
MaxSystems == 2

\* The length of the slice given to partition_parallel_systems on its own.
MaxPartSystems == 3

\* HashMap<TypeId, CompMutability>: every declaration over the component types.
AccessMaps == UNION {[D -> BOOLEAN] : D \in SUBSET CompTypes}

RECURSIVE SeqsUpTo(_, _)
SeqsUpTo(S, n) ==
    IF n = 0 THEN {<<>>}
    ELSE SeqsUpTo(S, n - 1) \cup {Append(q, x) : q \in {r \in SeqsUpTo(S, n - 1) : Len(r) = n - 1}, x \in S}

\* A take that moves the systems out and leaves all_components in place.
take_left_systems_only(self) == [systems |-> <<>>, all_components |-> self.all_components]

\* ParallelSystems::take: what is left in self.
take_left(self) == [systems |-> <<>>, all_components |-> EmptyMap]

\* ParallelSystems::append.
\* append that moves the systems and leaves all_components as it was.
append_systems_only(self, other) ==
    [systems |-> self.systems \o other.systems, all_components |-> self.all_components]

append(self, other) ==
    [systems |-> self.systems \o other.systems,
     all_components |->
        [ty \in (DOMAIN self.all_components) \cup (DOMAIN other.all_components) |->
            IF ty \in DOMAIN self.all_components
            THEN IF ty \in DOMAIN other.all_components /\ ~self.all_components[ty]
                 THEN other.all_components[ty]
                 ELSE self.all_components[ty]
            ELSE other.all_components[ty]]]

\* A test that sees a shared component only when the first map writes it.
systems_do_conflict_on_own_write(a_components, b_components) ==
    \E ty \in DOMAIN a_components :
        /\ ty \in DOMAIN b_components
        /\ a_components[ty]

\* parallel::systems_do_conflict.
systems_do_conflict(a_components, b_components) ==
    \E ty \in DOMAIN a_components :
        /\ ty \in DOMAIN b_components
        /\ (a_components[ty] \/ b_components[ty])

\* extract_potential_moves: for the batch at each index (0-based, kept as
\* element index + 1) the indices of the batches it can move to, ascending.
extract_potential_moves(runs) ==
    [i \in 1..Len(runs) |->
        IF runs[i].systems = <<>> THEN <<>>
        ELSE AscendingSeq({j - 1 : j \in {k \in 1..Len(runs) :
                /\ k # i
                /\ runs[k].systems # <<>>
                /\ ~systems_do_conflict(runs[i].all_components, runs[k].all_components)}})]

\* The batches partition_parallel_systems starts from: one per system.
initial_runs(systems_arg) ==
    [i \in 1..Len(systems_arg) |-> [systems |-> <<i - 1>>, all_components |-> systems_arg[i]]]

\* A check that looks only at the moves of the first batch.
no_moves_of_first(runs) ==
    IF Len(runs) = 0 THEN TRUE ELSE extract_potential_moves(runs)[1] = <<>>

no_moves(runs) == \A i \in 1..Len(runs) : extract_potential_moves(runs)[i] = <<>>

\* An iteration that takes the last batch with the fewest moves.
merge_step_last_least(runs) ==
    LET moves == extract_potential_moves(runs)
        cand == {i \in 1..Len(runs) : moves[i] # <<>>}
        least == Min({Len(moves[i]) : i \in cand})
        mv_from == CHOOSE i \in cand :
                      /\ Len(moves[i]) = least
                      /\ \A j \in cand : Len(moves[j]) = least => j <= i
        mv_to == moves[mv_from][Len(moves[mv_from])] + 1
    IN  [runs EXCEPT ![mv_from] = take_left(runs[mv_from]),
                     ![mv_to] = append(runs[mv_to], runs[mv_from])]

\* One iteration of the loop of partition_parallel_systems that makes a move,
\* on the potential_moves that extract_potential_moves has filled for this
\* iteration: min_by_key takes the first batch with the fewest moves, pop its
\* last move.
merge_step(runs) ==
    CHOOSE next_runs \in
        { LET cand == {i \in 1..Len(runs) : moves[i] # <<>>}
              least == Min({Len(moves[i]) : i \in cand})
              mv_from == Min({i \in cand : Len(moves[i]) = least})
              mv_to == moves[mv_from][Len(moves[mv_from])] + 1
          IN  [runs EXCEPT ![mv_from] = take_left(runs[mv_from]),
                           ![mv_to] = append(runs[mv_to], runs[mv_from])] :
            moves \in {extract_potential_moves(runs)} } : TRUE

\* A retain that keeps every batch, the emptied ones too.
retain_every_run(runs) == runs

\* parallel_runs.retain(|v| !v.systems.is_empty()).
NonEmptyRun(v) == v.systems # <<>>

retain_non_empty(runs) == SelectSeq(runs, NonEmptyRun)

RECURSIVE merge_loop(_)
merge_loop(runs) == IF no_moves(runs) THEN runs ELSE merge_loop(merge_step(runs))

partition_parallel_systems(systems_arg) == retain_non_empty(merge_loop(initial_runs(systems_arg)))

\* The store the systems are dispatched on: one Archetype12 entity at slot 0.
SchedArchetypes(v1, v2) ==
    <<add_entity_raw(ArchetypeNew(component_infos("Archetype12")), (1 :> v1) @@ (2 :> v2)).arch>>

SchedEntity == EntityId(0, 0)

VARIABLES
    systems,        \* the slice of systems given to the call
    parallel_runs,  \* the batches of partition_parallel_systems
    part_pc,        \* partition_parallel_systems: "idle", "loop" or "done"
    dp_pc,          \* the dispatch call: "idle", "seq", "scope" or "returned"
    seq_i,          \* dispatch: index of the system the for loop is at
    spawn_queue,    \* dispatch_par: systems the scope closure has yet to spawn
    task,           \* per system: "idle", "ready" (spawned), "running", "done"
    access,         \* per running system: its SystemAccess (global_components)
    hpc,            \* per system: number of handler steps taken
    local,          \* per system: the value its handler has read
    run_count,      \* per system: number of times its handler was started
    run_order,      \* the systems in the order their handlers were started
    init_archetypes \* the archetypes at the time of the dispatch call

schedVars == <<systems, parallel_runs, part_pc, dp_pc, seq_i, spawn_queue, task,
               access, hpc, local, run_count, run_order, init_archetypes>>

\* A handler that requests views from the SystemAccess it is given.
VARIABLES
    acc_pc,         \* the handler: "none", "running", "panicked" or "returned"
    sys_access,     \* the SystemAccess the handler holds (its argument `data`)
    held_set,       \* the ComponentSetAccess the handler holds
    n_req,          \* number of calls the handler has made
    views           \* per component: the views the handler holds, by kind

accessVars == <<acc_pc, sys_access, held_set, n_req, views>>

\* The handler holds no view.
NoViews == [ty \in {1, 2} |-> [r |-> 0, w |-> 0]]

NoData == [allowed_all_components |-> FALSE, global_components |-> [ty \in {} |-> 0]]

NoSet == [components |-> [ty \in {} |-> 0], filtered_archetype_ids |-> <<>>,
          guards |-> [ty \in {} |-> FALSE]]

AccessIdle ==
    /\ acc_pc = "none"
    /\ sys_access = NoData
    /\ held_set = NoSet
    /\ n_req = 0
    /\ views = NoViews

SysIds == 0..(Len(systems) - 1)

\* The components a handler writes, ascending: those declared with with_mut.
WriteComps(components) == AscendingSeq({ty \in DOMAIN components : components[ty]})

\* The value the handler of system i stores over a value x it has read.
HandlerValue(i, x) == IF i % 2 = 0 THEN 1 - x ELSE 1

\* EntityStorage::global_component_by_id in a fresh RefCell; borrow is the
\* RefCell's state: 0 unborrowed, n > 0 readers, -1 a writer.
global_component_by_id(ty, mutable) ==
    [filtered_archetype_ids |->
        IF ty \in DOMAIN component_to_archetypes_map
        THEN component_to_archetypes_map[ty] ELSE <<>>,
     mutable |-> mutable,
     borrow |-> 0]

\* EntityStorage::get_system_data: global_components, a cell per declared
\* component.
get_system_data(components) ==
    [ty \in DOMAIN components |-> global_component_by_id(ty, components[ty])]

\* SystemAccess::component_mut: TRUE when it returns a view (no panic).
component_mut_ok(acc, ty) ==
    /\ ty \in DOMAIN acc
    /\ acc[ty].borrow = 0
    /\ acc[ty].mutable

NoAccess == [ty \in {} |-> 0]

SchedIdle ==
    /\ systems = <<>>
    /\ parallel_runs = <<>>
    /\ part_pc = "idle"
    /\ dp_pc = "idle"
    /\ seq_i = 0
    /\ spawn_queue = <<>>
    /\ task = <<>>
    /\ access = <<>>
    /\ hpc = <<>>
    /\ local = <<>>
    /\ run_count = <<>>
    /\ run_order = <<>>
    /\ init_archetypes = <<>>
    /\ AccessIdle
    /\ EntitiesNew

\* The state at a call of dispatch or dispatch_par with the slice systems_arg
\* on a store holding one Archetype12 entity with values v1, v2.
SchedCall(systems_arg, v1, v2, pc) ==
    /\ archetypes = SchedArchetypes(v1, v2)
    /\ archetypes_by_types = ("Archetype12" :> 0)
    /\ archetypes_by_layout = (<<1, 2>> :> 0)
    /\ component_to_archetypes_map = (1 :> <<0>>) @@ (2 :> <<0>>)
    /\ drop_calls = EmptyMap
    /\ add_calls = (<<0, 1, 0>> :> 1)
    /\ n_ops = 1
    /\ n_add = 1
    /\ n_remove_true = 0
    /\ last = [op |-> "add",
                state |-> [ty |-> "Archetype12", vals |-> (1 :> v1) @@ (2 :> v2)],
                entity |-> SchedEntity, wild |-> FALSE]
    /\ systems = systems_arg
    /\ parallel_runs = <<>>
    /\ part_pc = "idle"
    /\ dp_pc = pc
    /\ seq_i = 0
    /\ spawn_queue = <<>>
    /\ task = [i \in 1..Len(systems_arg) |-> "idle"]
    /\ access = [i \in 1..Len(systems_arg) |-> NoAccess]
    /\ hpc = [i \in 1..Len(systems_arg) |-> 0]
    /\ local = [i \in 1..Len(systems_arg) |-> 0]
    /\ run_count = [i \in 1..Len(systems_arg) |-> 0]
    /\ run_order = <<>>
    /\ init_archetypes = SchedArchetypes(v1, v2)
    /\ AccessIdle
    /\ EntitiesNew

storeFrame == <<arch_entities, archetypes_by_types, archetypes_by_layout, component_to_archetypes_map,
                drop_calls, add_calls, n_ops, n_add, n_remove_true, last>>

\* The handler of system i is started: get_system_data, then handler.run(data).
StartHandler(i) ==
    /\ task' = [task EXCEPT ![i + 1] = "running"]
    /\ access' = [access EXCEPT ![i + 1] = get_system_data(systems[i + 1])]
    /\ hpc' = [hpc EXCEPT ![i + 1] = 0]
    /\ run_count' = [run_count EXCEPT ![i + 1] = @ + 1]
    /\ run_order' = Append(run_order, i)

\* The handler acquires component_mut::<C>() for its next written component
\* and reads the entity's value through get_mut.
HandlerRead(i) ==
    /\ i \in SysIds
    /\ task[i + 1] = "running"
    /\ hpc[i + 1] < 2 * Len(WriteComps(systems[i + 1]))
    /\ hpc[i + 1] % 2 = 0
    /\ LET ty == WriteComps(systems[i + 1])[(hpc[i + 1] \div 2) + 1]
       IN  /\ component_mut_ok(access[i + 1], ty)
           /\ access' = [access EXCEPT ![i + 1][ty].borrow = -1]
           /\ local' = [local EXCEPT ![i + 1] = Get(SchedEntity, ty)[1]]
    /\ hpc' = [hpc EXCEPT ![i + 1] = @ + 1]
    /\ UNCHANGED <<archetypes, storeFrame, accessVars, systems, parallel_runs, part_pc, dp_pc, seq_i,
                   spawn_queue, task, run_count, run_order, init_archetypes>>

\* The handler stores the new value through the reference it holds.
HandlerWrite(i) ==
    /\ i \in SysIds
    /\ task[i + 1] = "running"
    /\ hpc[i + 1] < 2 * Len(WriteComps(systems[i + 1]))
    /\ hpc[i + 1] % 2 = 1
    /\ LET ty == WriteComps(systems[i + 1])[(hpc[i + 1] \div 2) + 1]
       IN  archetypes' = [archetypes EXCEPT ![SchedEntity.archetype_id + 1] =
                             ArchetypeSet(@, ty, SchedEntity.id, HandlerValue(i, local[i + 1]))]
    /\ hpc' = [hpc EXCEPT ![i + 1] = @ + 1]
    /\ UNCHANGED <<storeFrame, accessVars, systems, parallel_runs, part_pc, dp_pc, seq_i, spawn_queue,
                   task, access, local, run_count, run_order, init_archetypes>>

\* handler.run returns: the SystemAccess and every view taken from it are dropped.
HandlerReturn(i) ==
    /\ i \in SysIds
    /\ task[i + 1] = "running"
    /\ hpc[i + 1] = 2 * Len(WriteComps(systems[i + 1]))
    /\ task' = [task EXCEPT ![i + 1] = "done"]
    /\ access' = [access EXCEPT ![i + 1] = NoAccess]
    /\ seq_i' = IF dp_pc = "seq" THEN seq_i + 1 ELSE seq_i
    /\ UNCHANGED <<archetypes, storeFrame, accessVars, systems, parallel_runs, part_pc, dp_pc,
                   spawn_queue, hpc, local, run_count, run_order, init_archetypes>>

(***************************************************************************)
(* EntityStorage::dispatch: for sys in systems { get_system_data; run }.   *)
(***************************************************************************)
\* The system the for loop visits at its k-th iteration (k from 0).
\* The loop visiting the slice from its end.
dispatch_order_reversed(k) == Len(systems) - 1 - k

dispatch_order(k) == k

DispatchNext ==
    /\ dp_pc = "seq"
    /\ seq_i < Len(systems)
    /\ \A j \in SysIds : task[j + 1] # "running"
    /\ StartHandler(dispatch_order(seq_i))
    /\ UNCHANGED <<archetypes, storeFrame, accessVars, systems, parallel_runs, part_pc, dp_pc, seq_i,
                   spawn_queue, local, init_archetypes>>

DispatchReturn ==
    /\ dp_pc = "seq"
    /\ seq_i = Len(systems)
    /\ dp_pc' = "returned"
    /\ UNCHANGED <<archetypes, storeFrame, accessVars, systems, parallel_runs, part_pc, seq_i,
                   spawn_queue, task, access, hpc, local, run_count, run_order,
                   init_archetypes>>

SeqInit ==
    \E systems_arg \in SeqsUpTo(AccessMaps, MaxSystems), v1 \in Vals, v2 \in Vals :
        SchedCall(systems_arg, v1, v2, "seq")

SeqNext ==
    \/ DispatchNext
    \/ \E i \in 0..(MaxSystems - 1) : HandlerRead(i)
    \/ \E i \in 0..(MaxSystems - 1) : HandlerWrite(i)
    \/ \E i \in 0..(MaxSystems - 1) : HandlerReturn(i)
    \/ DispatchReturn

(***************************************************************************)
(* EntityStorage::dispatch_par.                                            *)
(***************************************************************************)
RECURSIVE Flatten(_)
Flatten(runs) == IF runs = <<>> THEN <<>> ELSE Head(runs).systems \o Flatten(Tail(runs))

\* The call: return at once on an empty slice, else partition the systems
\* and enter rayon::scope, whose closure spawns the systems batch by batch.
DispatchParCall ==
    /\ dp_pc = "par"
    /\ IF systems = <<>>
       THEN /\ dp_pc' = "returned"
            /\ UNCHANGED <<parallel_runs, spawn_queue>>
       ELSE /\ dp_pc' = "scope"
            /\ parallel_runs' = partition_parallel_systems(systems)
            /\ spawn_queue' = Flatten(partition_parallel_systems(systems))
    /\ UNCHANGED <<archetypes, storeFrame, accessVars, systems, part_pc, seq_i, task, access, hpc,
                   local, run_count, run_order, init_archetypes>>

\* s.spawn(..): the next system of the loops becomes a task of the scope.
Spawn ==
    /\ dp_pc = "scope"
    /\ spawn_queue # <<>>
    /\ task' = [task EXCEPT ![Head(spawn_queue) + 1] = "ready"]
    /\ spawn_queue' = Tail(spawn_queue)
    /\ UNCHANGED <<archetypes, storeFrame, accessVars, systems, parallel_runs, part_pc, dp_pc, seq_i,
                   access, hpc, local, run_count, run_order, init_archetypes>>

\* A worker thread of the pool takes a spawned task and runs its closure.
RunTask(i) ==
    /\ i \in SysIds
    /\ dp_pc = "scope"
    /\ task[i + 1] = "ready"
    /\ StartHandler(i)
    /\ UNCHANGED <<archetypes, storeFrame, accessVars, systems, parallel_runs, part_pc, dp_pc, seq_i,
                   spawn_queue, local, init_archetypes>>

\* rayon::scope returns once its closure has returned and every task
\* spawned into the scope has completed.
\* A scope that returns once its closure has returned.
scope_returns_after_spawning == spawn_queue = <<>>

scope_may_return == spawn_queue = <<>> /\ \A i \in SysIds : task[i + 1] = "done"

DispatchParReturn ==
    /\ dp_pc = "scope"
    /\ scope_may_return
    /\ dp_pc' = "returned"
    /\ UNCHANGED <<archetypes, storeFrame, accessVars, systems, parallel_runs, part_pc, seq_i,
                   spawn_queue, task, access, hpc, local, run_count, run_order,
                   init_archetypes>>

ParInit ==
    \E systems_arg \in SeqsUpTo(AccessMaps, MaxSystems), v1 \in Vals, v2 \in Vals :
        SchedCall(systems_arg, v1, v2, "par")

ParNext ==
    \/ DispatchParCall
    \/ Spawn
    \/ \E i \in 0..(MaxSystems - 1) : RunTask(i)
    \/ \E i \in 0..(MaxSystems - 1) : HandlerRead(i)
    \/ \E i \in 0..(MaxSystems - 1) : HandlerWrite(i)
    \/ \E i \in 0..(MaxSystems - 1) : HandlerReturn(i)
    \/ DispatchParReturn

(***************************************************************************)
(* partition_parallel_systems, one loop iteration at a time.               *)
(***************************************************************************)
PartitionInit ==
    \E systems_arg \in SeqsUpTo(AccessMaps, MaxPartSystems) :
        SchedCall(systems_arg, 0, 0, "idle")

\* The systems of test_optimization: sys0 .. sys4 with their with_mut
\* declarations, the components i8, i16, i32, i64, u64 numbered 0 .. 4.
TestSystems ==
    << (1 :> TRUE),
       (2 :> TRUE) @@ (3 :> TRUE),
       (1 :> TRUE) @@ (4 :> TRUE),
       (0 :> TRUE) @@ (3 :> TRUE),
       (0 :> TRUE) @@ (1 :> TRUE) @@ (4 :> TRUE) >>

\* partition_parallel_systems called with the systems of test_optimization,
\* or with some of them in some order.
OptimizationInit ==
    \E systems_arg \in SeqsUpTo(Range(TestSystems), Len(TestSystems)) :
        /\ \A i, j \in 1..Len(systems_arg) : systems_arg[i] = systems_arg[j] => i = j
        /\ SchedCall(systems_arg, 0, 0, "idle")

PartitionEnter ==
    /\ part_pc = "idle"
    /\ part_pc' = "loop"
    /\ parallel_runs' = initial_runs(systems)
    /\ UNCHANGED <<archetypes, storeFrame, accessVars, systems, dp_pc, seq_i, spawn_queue, task, access,
                   hpc, local, run_count, run_order, init_archetypes>>

PartitionMerge ==
    /\ part_pc = "loop"
    /\ ~no_moves(parallel_runs)
    /\ parallel_runs' = merge_step(parallel_runs)
    /\ UNCHANGED <<archetypes, storeFrame, accessVars, systems, part_pc, dp_pc, seq_i, spawn_queue, task,
                   access, hpc, local, run_count, run_order, init_archetypes>>

PartitionReturn ==
    /\ part_pc = "loop"
    /\ no_moves(parallel_runs)
    /\ parallel_runs' = retain_non_empty(parallel_runs)
    /\ part_pc' = "done"
    /\ UNCHANGED <<archetypes, storeFrame, accessVars, systems, dp_pc, seq_i, spawn_queue, task, access,
                   hpc, local, run_count, run_order, init_archetypes>>

PartitionNext ==
    \/ PartitionEnter
    \/ PartitionMerge
    \/ PartitionReturn

(***************************************************************************)
(* SystemAccess and its views (src/src/system.rs, system/component.rs).    *)
(* A SystemAccess is [allowed_all_components, global_components]; a call   *)
(* returns [panic |-> message, ...] with panic = "" when it returns.       *)
(***************************************************************************)
NotAvailable == "Component not available"

MutablyBorrowed == "Component is mutably borrowed"

AlreadyBorrowed == "Component is already borrowed"

NotMutable == "Component is not allowed to be mutated"

\* Option::unwrap on None.
UnwrapNone == "called Option::unwrap() on a None value"

\* RefCell::borrow on a cell that is mutably borrowed.
BorrowError == "already mutably borrowed: BorrowError"

\* The SystemAccess get_system_data returns for a system's declarations.
SystemData(components) ==
    [allowed_all_components |-> FALSE, global_components |-> get_system_data(components)]

\* EntityStorage::access.
AccessAll == [allowed_all_components |-> TRUE, global_components |-> EmptyMap]

\* SystemAccess::get_component: found = FALSE is None; acc is the access
\* after the call (a vacant entry is filled when all components are allowed).
get_component(acc, ty) ==
    IF ty \in DOMAIN acc.global_components THEN [found |-> TRUE, acc |-> acc]
    ELSE IF ~acc.allowed_all_components THEN [found |-> FALSE, acc |-> acc]
    ELSE [found |-> TRUE,
          acc |-> [acc EXCEPT !.global_components =
                      MapInsert(@, ty, global_component_by_id(ty, TRUE))]]

\* SystemAccess::archetype_set_for: the loop over set.components, visited in
\* the order `order`.
RECURSIVE archetype_set_loop(_, _, _, _)
archetype_set_loop(acc, order, result, initialized) ==
    IF order = <<>> THEN [panic |-> "", acc |-> acc, result |-> result]
    ELSE LET comp_ty == Head(order)
             comp == get_component(acc, comp_ty)
         IN  IF ~comp.found THEN [panic |-> NotAvailable, acc |-> comp.acc, result |-> {}]
             ELSE IF comp_ty \notin DOMAIN component_to_archetypes_map
             THEN [panic |-> "", acc |-> comp.acc, result |-> {}]
             ELSE LET next_archetype_ids == Range(component_to_archetypes_map[comp_ty])
                  IN  archetype_set_loop(comp.acc, Tail(order),
                          IF initialized THEN result \cap next_archetype_ids
                          ELSE next_archetype_ids,
                          TRUE)

archetype_set_for(acc, order) == archetype_set_loop(acc, order, {}, FALSE)

\* A loop that guards every component of the set with a shared borrow, the
\* ones marked mutable too.
RECURSIVE component_set_loop_shared_guards(_, _, _)
component_set_loop_shared_guards(acc, set, order) ==
    IF order = <<>> THEN [panic |-> "", acc |-> acc]
    ELSE LET ty == Head(order)
             comp == get_component(acc, ty)
         IN  IF ~comp.found THEN [panic |-> UnwrapNone, acc |-> acc]
             ELSE LET cell == comp.acc.global_components[ty]
                  IN  IF set[ty] /\ cell.borrow = -1 THEN [panic |-> BorrowError, acc |-> acc]
                      ELSE IF set[ty] /\ ~cell.mutable THEN [panic |-> NotMutable, acc |-> acc]
                      ELSE IF cell.borrow = -1
                      THEN [panic |-> MutablyBorrowed, acc |-> acc]
                      ELSE component_set_loop_shared_guards(
                              [comp.acc EXCEPT !.global_components[ty].borrow = @ + 1],
                              set, Tail(order))

\* SystemAccess::component_set: the loop that checks and borrows every
\* component of the set.
RECURSIVE component_set_loop(_, _, _)
component_set_loop(acc, set, order) ==
    IF order = <<>> THEN [panic |-> "", acc |-> acc]
    ELSE LET ty == Head(order)
             comp == get_component(acc, ty)
         IN  IF ~comp.found THEN [panic |-> UnwrapNone, acc |-> acc]
             ELSE LET cell == comp.acc.global_components[ty]
                  IN  IF set[ty] /\ cell.borrow = -1 THEN [panic |-> BorrowError, acc |-> acc]
                      ELSE IF set[ty] /\ ~cell.mutable THEN [panic |-> NotMutable, acc |-> acc]
                      ELSE IF set[ty] /\ cell.borrow # 0
                      THEN [panic |-> AlreadyBorrowed, acc |-> acc]
                      ELSE IF ~set[ty] /\ cell.borrow = -1
                      THEN [panic |-> MutablyBorrowed, acc |-> acc]
                      ELSE component_set_loop(
                              [comp.acc EXCEPT !.global_components[ty].borrow =
                                  IF set[ty] THEN -1 ELSE @ + 1],
                              set, Tail(order))

\* SystemAccess::component_set for the set `set` (type -> mutable), with
\* set.components iterated in the order `order` and the HashSet of matching
\* archetypes in the order `filtered`.
component_set(acc, set, order, filtered) ==
    LET ids == archetype_set_for(acc, order)
        borrowed == component_set_loop(ids.acc, set, order)
    IN  IF ids.panic # "" THEN [panic |-> ids.panic]
        ELSE IF borrowed.panic # "" THEN [panic |-> borrowed.panic]
        ELSE [panic |-> "",
              acc |-> borrowed.acc,
              set_access |->
                [components |->
                    [ty \in DOMAIN set |->
                        [filtered_archetype_ids |-> filtered, mutable |-> set[ty], borrow |-> 0]],
                 filtered_archetype_ids |-> filtered,
                 guards |-> set]]

\* The ids of the occupied slots of archetype arch_id, under the archetype
\* index curr_arch_id.
entities_under(curr_arch_id, arch_id) ==
    LET curr_iter == EntitiesIter(archetypes[arch_id + 1])
    IN  [i \in 1..Len(curr_iter) |-> EntityId(curr_arch_id, curr_iter[i])]

\* FilteredEntitiesIter::next until None: curr_arch_id stays what
\* into_entities_iter set it to.
RECURSIVE FilteredEntitiesIter(_, _)
FilteredEntitiesIter(curr_arch_id, filtered_archetype_ids) ==
    IF filtered_archetype_ids = <<>> THEN <<>>
    ELSE entities_under(curr_arch_id, Head(filtered_archetype_ids))
            \o FilteredEntitiesIter(curr_arch_id, Tail(filtered_archetype_ids))

\* ComponentSetAccess::into_entities_iter and the ids the iterator yields.
into_entities_iter(set_access) ==
    IF set_access.filtered_archetype_ids = <<>> THEN [panic |-> UnwrapNone, items |-> <<>>]
    ELSE [panic |-> "",
          items |-> FilteredEntitiesIter(Head(set_access.filtered_archetype_ids),
                                         set_access.filtered_archetype_ids)]

\* ArchetypeStorage::component::<C>: the column of C, None when the archetype
\* has none.
ArchetypeComponent(arch, c) ==
    IF c \in DOMAIN arch.components_by_types
    THEN Some(arch.components[arch.components_by_types[c] + 1].data)
    ELSE None

\* ComponentStorageRef::get_unchecked / ComponentStorageMut::get_unchecked_mut:
\* the reference at offset entity_id of the column, with no check of the slot;
\* the set of what is returned.  A reference past the end of the column
\* points at memory the column never wrote: any value can be read there.
get_unchecked(column, entity_id) ==
    IF entity_id < Len(column) THEN {Some(column[entity_id + 1])}
    ELSE {Some(v) : v \in Vals}

\* EntityStorage::entry / entry_mut: an entry whenever the archetype exists.
entry(entity) ==
    IF entity.archetype_id < Len(archetypes)
    THEN Some([arch |-> entity.archetype_id, entity |-> entity])
    ELSE None

\* Entry::get::<C>, EntryMut::get::<C> and EntryMut::get_mut::<C>: the set of
\* what the call can return.
EntryGet(e, c) ==
    LET comp == ArchetypeComponent(archetypes[e.arch + 1], c)
    IN  IF comp = None THEN {None} ELSE get_unchecked(comp[1], e.entity.id)

\* ComponentStorageRef::iter: a reference per occupied slot, ascending, as
\* the entity it belongs to and the value it points at.
component_iter(arch_id, data) ==
    LET entities_iter == EntitiesIter(archetypes[arch_id + 1])
    IN  [i \in 1..Len(entities_iter) |->
            [entity |-> EntityId(arch_id, entities_iter[i]),
             value |-> data[entities_iter[i] + 1]]]

\* GlobalComponentIter::next until None, over the archetypes left.
RECURSIVE GlobalComponentIterNext(_, _)
GlobalComponentIterNext(filtered_archetypes_iter, c) ==
    IF filtered_archetypes_iter = <<>> THEN <<>>
    ELSE LET next_arch_id == Head(filtered_archetypes_iter)
             comp == ArchetypeComponent(archetypes[next_arch_id + 1], c)
         IN  IF comp = None THEN <<>>
             ELSE component_iter(next_arch_id, comp[1])
                      \o GlobalComponentIterNext(Tail(filtered_archetypes_iter), c)

\* GlobalComponentAccess::iter: ComponentGlobalIterInner::new, then the
\* items of GlobalComponentIter.
GlobalComponentIter(generic, c) ==
    IF generic.filtered_archetype_ids = <<>> THEN [panic |-> UnwrapNone, items |-> <<>>]
    ELSE IF ArchetypeComponent(archetypes[Head(generic.filtered_archetype_ids) + 1], c) = None
    THEN [panic |-> UnwrapNone, items |-> <<>>]
    ELSE [panic |-> "", items |-> GlobalComponentIterNext(generic.filtered_archetype_ids, c)]

\* GenericComponentGlobalAccess::count_entities.
RECURSIVE generic_count_entities(_)
generic_count_entities(filtered_archetype_ids) ==
    IF filtered_archetype_ids = <<>> THEN 0
    ELSE Cardinality(occupied_ids(archetypes[Head(filtered_archetype_ids) + 1]))
            + generic_count_entities(Tail(filtered_archetype_ids))

IndexOutOfBounds == "index out of bounds"

\* GlobalComponentAccess::contains: all_entities.contains.
view_contains(entity_id) == Contains(entity_id)

\* GlobalComponentAccess::get: all_archetypes is indexed with the archetype
\* id of the entity, then ArchetypeStorage::get.
view_get(entity_id, c) ==
    IF entity_id.archetype_id >= Len(archetypes)
    THEN [panic |-> IndexOutOfBounds, ref |-> None]
    ELSE [panic |-> "",
          ref |-> ArchetypeGet(archetypes[entity_id.archetype_id + 1], c, entity_id.id)]

\* GlobalComponentAccess::get_mut: all_archetypes is indexed, component::<C>()
\* is None for an archetype without C, then the slot is looked up.
view_get_mut(entity_id, c) ==
    IF entity_id.archetype_id >= Len(archetypes)
    THEN [panic |-> IndexOutOfBounds, ref |-> None]
    ELSE LET arch == archetypes[entity_id.archetype_id + 1]
             comp == ArchetypeComponent(arch, c)
         IN  IF comp = None THEN [panic |-> "", ref |-> None]
             ELSE IF entity_id.id \in occupied_ids(arch)
             THEN [panic |-> "", ref |-> ArchetypeGet(arch, c, entity_id.id)]
             ELSE [panic |-> "", ref |-> None]

\* component that hands out a read view whatever the state of the cell.
component_unchecked(acc, ty) ==
    LET comp == get_component(acc, ty)
    IN  IF ~comp.found THEN [panic |-> NotAvailable, acc |-> acc]
        ELSE [panic |-> "", acc |-> comp.acc]

\* SystemAccess::component::<C>.
component(acc, ty) ==
    LET comp == get_component(acc, ty)
    IN  IF ~comp.found THEN [panic |-> NotAvailable, acc |-> acc]
        ELSE IF comp.acc.global_components[ty].borrow = -1
        THEN [panic |-> MutablyBorrowed, acc |-> acc]
        ELSE [panic |-> "",
              acc |-> [comp.acc EXCEPT !.global_components[ty].borrow = @ + 1]]

\* component_mut without the check of the declared mutability.
component_mut_any_declaration(acc, ty) ==
    LET comp == get_component(acc, ty)
    IN  IF ~comp.found THEN [panic |-> NotAvailable, acc |-> acc]
        ELSE IF comp.acc.global_components[ty].borrow # 0
        THEN [panic |-> AlreadyBorrowed, acc |-> acc]
        ELSE [panic |-> "",
              acc |-> [comp.acc EXCEPT !.global_components[ty].borrow = -1]]

\* component_mut that is refused by a write view only.
component_mut_over_readers(acc, ty) ==
    LET comp == get_component(acc, ty)
    IN  IF ~comp.found THEN [panic |-> NotAvailable, acc |-> acc]
        ELSE IF comp.acc.global_components[ty].borrow = -1
        THEN [panic |-> AlreadyBorrowed, acc |-> acc]
        ELSE IF ~comp.acc.global_components[ty].mutable
        THEN [panic |-> NotMutable, acc |-> acc]
        ELSE [panic |-> "",
              acc |-> [comp.acc EXCEPT !.global_components[ty].borrow = -1]]

\* SystemAccess::component_mut::<C>: the cell is borrowed first, then its
\* mutable flag is looked at.
component_mut(acc, ty) ==
    LET comp == get_component(acc, ty)
    IN  IF ~comp.found THEN [panic |-> NotAvailable, acc |-> acc]
        ELSE IF comp.acc.global_components[ty].borrow # 0
        THEN [panic |-> AlreadyBorrowed, acc |-> acc]
        ELSE IF ~comp.acc.global_components[ty].mutable
        THEN [panic |-> NotMutable, acc |-> acc]
        ELSE [panic |-> "",
              acc |-> [comp.acc EXCEPT !.global_components[ty].borrow = -1]]

NotFound == "Component not found"

AlreadyMutablyBorrowed == "Component is already mutably borrowed"

\* ComponentSetAccess::iter::<C>: the set after the call.
set_iter(set_access, ty) ==
    IF ty \notin DOMAIN set_access.components THEN [panic |-> NotFound, set_access |-> set_access]
    ELSE IF set_access.components[ty].borrow = -1
    THEN [panic |-> MutablyBorrowed, set_access |-> set_access]
    ELSE IF set_access.components[ty].filtered_archetype_ids = <<>>
    THEN [panic |-> UnwrapNone, set_access |-> set_access]
    ELSE [panic |-> "", set_access |-> [set_access EXCEPT !.components[ty].borrow = @ + 1]]

\* ComponentSetAccess::iter_mut::<C>: the set after the call.
set_iter_mut(set_access, ty) ==
    IF ty \notin DOMAIN set_access.components THEN [panic |-> NotFound, set_access |-> set_access]
    ELSE IF set_access.components[ty].borrow # 0
    THEN [panic |-> AlreadyMutablyBorrowed, set_access |-> set_access]
    ELSE IF ~set_access.components[ty].mutable
    THEN [panic |-> NotMutable, set_access |-> set_access]
    ELSE IF set_access.components[ty].filtered_archetype_ids = <<>>
    THEN [panic |-> UnwrapNone, set_access |-> set_access]
    ELSE [panic |-> "", set_access |-> [set_access EXCEPT !.components[ty].borrow = -1]]

MaxAccessAdds == 1

MaxRequests == 3

\* The store and the scheduler as a handler's calls leave them.
accessFrame == <<arch_entities, archetypes, archetypes_by_types, archetypes_by_layout,
                 component_to_archetypes_map, drop_calls, add_calls, n_ops, n_add,
                 n_remove_true,
                 schedVars>>

\* storage.add before any system is dispatched.
AccessAdd(state) ==
    /\ acc_pc = "none"
    /\ n_add < MaxAccessAdds
    /\ Add(state)
    /\ UNCHANGED <<schedVars, accessVars, arch_entities>>

\* dispatch starts the handler of a system with the declarations
\* `components`: get_system_data, handler.run(data).
RunSystem(components) ==
    /\ acc_pc = "none"
    /\ acc_pc' = "running"
    /\ sys_access' = SystemData(components)
    /\ last' = [op |-> "dispatch", components |-> components]
    /\ UNCHANGED <<accessFrame, held_set, n_req, views>>

\* let access = storage.access().
TakeAccess ==
    /\ acc_pc = "none"
    /\ acc_pc' = "running"
    /\ sys_access' = AccessAll
    /\ last' = [op |-> "access"]
    /\ UNCHANGED <<accessFrame, held_set, n_req, views>>

\* The handler after a call that returned `panic`: a panic unwinds the
\* handler and drops the access and every view.
AfterCall(panic, acc, set_access, kept) ==
    /\ n_req' = n_req + 1
    /\ IF panic = ""
       THEN /\ acc_pc' = "running"
            /\ sys_access' = acc
            /\ held_set' = set_access
            /\ views' = kept
       ELSE /\ acc_pc' = "panicked"
            /\ sys_access' = NoData
            /\ held_set' = NoSet
            /\ views' = NoViews

\* The handler calls component::<ty>() and keeps the view.  borrow is the
\* state of the component's cell at the call (0 when it has no cell).
BorrowOf(acc, ty) ==
    IF ty \in DOMAIN acc.global_components THEN acc.global_components[ty].borrow ELSE 0

Component(ty) ==
    /\ acc_pc = "running"
    /\ n_req < MaxRequests
    /\ LET got == component(sys_access, ty)
       IN  /\ AfterCall(got.panic, got.acc, held_set, [views EXCEPT ![ty].r = @ + 1])
           /\ last' = [op |-> "component", ty |-> ty, panic |-> got.panic,
                       borrow |-> BorrowOf(sys_access, ty)]
    /\ UNCHANGED accessFrame

\* The handler calls component_mut::<ty>() and keeps the view.
ComponentMut(ty) ==
    /\ acc_pc = "running"
    /\ n_req < MaxRequests
    /\ LET got == component_mut(sys_access, ty)
       IN  /\ AfterCall(got.panic, got.acc, held_set, [views EXCEPT ![ty].w = @ + 1])
           /\ last' = [op |-> "component_mut", ty |-> ty, panic |-> got.panic,
                       borrow |-> BorrowOf(sys_access, ty)]
    /\ UNCHANGED accessFrame

\* The handler calls component_set(&set) and keeps the set; it holds no
\* other set, as the call takes &mut self.
ComponentSet(set) ==
    /\ acc_pc = "running"
    /\ n_req < MaxRequests
    /\ held_set = NoSet
    /\ \E order \in Perms(DOMAIN set) :
         \E filtered \in Perms(archetype_set_for(sys_access, order).result) :
            LET got == component_set(sys_access, set, order, filtered)
            IN  /\ IF got.panic = ""
                   THEN AfterCall("", got.acc, got.set_access, views)
                   ELSE AfterCall(got.panic, sys_access, held_set, views)
                /\ last' = [op |-> "component_set", set |-> set, order |-> order,
                            panic |-> got.panic]
    /\ UNCHANGED accessFrame

\* The handler calls iter::<ty>() on the set it holds and keeps the iterator.
SetIter(ty) ==
    /\ acc_pc = "running"
    /\ n_req < MaxRequests
    /\ held_set # NoSet
    /\ LET got == set_iter(held_set, ty)
       IN  /\ AfterCall(got.panic, sys_access, got.set_access, views)
           /\ last' = [op |-> "iter", ty |-> ty, panic |-> got.panic]
    /\ UNCHANGED accessFrame

\* The handler calls iter_mut::<ty>() on the set it holds and keeps the
\* iterator.
SetIterMut(ty) ==
    /\ acc_pc = "running"
    /\ n_req < MaxRequests
    /\ held_set # NoSet
    /\ LET got == set_iter_mut(held_set, ty)
       IN  /\ AfterCall(got.panic, sys_access, got.set_access, views)
           /\ last' = [op |-> "iter_mut", ty |-> ty, panic |-> got.panic]
    /\ UNCHANGED accessFrame

\* The guard the held set keeps on the cell of ty: 1 a Ref, -1 a RefMut.
SetGuard(ty) ==
    IF ty \notin DOMAIN held_set.guards THEN 0
    ELSE IF held_set.guards[ty] THEN -1 ELSE 1

\* The handler drops a view of ty it took with component or component_mut.
DropView(ty) ==
    /\ acc_pc = "running"
    /\ n_req < MaxRequests
    /\ ty \in DOMAIN sys_access.global_components
    /\ \/ /\ views[ty].w > 0
          /\ views' = [views EXCEPT ![ty].w = @ - 1]
          /\ sys_access' = [sys_access EXCEPT !.global_components[ty].borrow = 0]
       \/ /\ views[ty].r > 0
          /\ views' = [views EXCEPT ![ty].r = @ - 1]
          /\ sys_access' = [sys_access EXCEPT !.global_components[ty].borrow = @ - 1]
    /\ n_req' = n_req + 1
    /\ last' = [op |-> "drop", ty |-> ty]
    /\ UNCHANGED <<accessFrame, acc_pc, held_set>>

\* The handler drops the set it holds: its guards are released.
DropSet ==
    /\ acc_pc = "running"
    /\ n_req < MaxRequests
    /\ held_set # NoSet
    /\ sys_access' = [sys_access EXCEPT !.global_components =
            [ty \in DOMAIN @ |-> [@[ty] EXCEPT !.borrow = @ - SetGuard(ty)]]]
    /\ held_set' = NoSet
    /\ n_req' = n_req + 1
    /\ last' = [op |-> "drop_set"]
    /\ UNCHANGED <<accessFrame, acc_pc, views>>

\* handler.run returns: the access and every view are dropped.
\* The handler calls get_mut(entity) on the write view of ty it holds and
\* stores another value through the reference it gets.
ViewGetMut(ty, entity) ==
    /\ acc_pc = "running"
    /\ n_req < MaxRequests
    /\ views[ty].w > 0
    /\ LET got == view_get_mut(entity, ty)
       IN  /\ AfterCall(got.panic, sys_access, held_set, views)
           /\ archetypes' =
                 IF got.ref = None THEN archetypes
                 ELSE [archetypes EXCEPT ![entity.archetype_id + 1] =
                          ArchetypeSet(@, ty, entity.id, HandlerValue(0, got.ref[1]))]
           /\ last' = [op |-> "get_mut", ty |-> ty, entity |-> entity, panic |-> got.panic]
    /\ UNCHANGED <<arch_entities, archetypes_by_types, archetypes_by_layout,
                   component_to_archetypes_map, drop_calls, add_calls, n_ops, n_add,
                   n_remove_true, schedVars>>

HandlerEnd ==
    /\ acc_pc = "running"
    /\ acc_pc' = "returned"
    /\ sys_access' = NoData
    /\ held_set' = NoSet
    /\ views' = NoViews
    /\ last' = [op |-> "return"]
    /\ UNCHANGED <<accessFrame, n_req>>

AccessNext ==
    \/ \E state \in RegistryStates : AccessAdd(state)
    \/ \E components \in AccessMaps : RunSystem(components)
    \/ TakeAccess
    \/ \E ty \in CompTypes : Component(ty)
    \/ \E ty \in CompTypes : ComponentMut(ty)
    \/ \E set \in AccessMaps : ComponentSet(set)
    \/ \E ty \in CompTypes : SetIter(ty)
    \/ \E ty \in CompTypes : SetIterMut(ty)
    \/ \E ty \in CompTypes : DropView(ty)
    \/ DropSet
    \/ \E ty \in CompTypes, entity \in ProbeIds : ViewGetMut(ty, entity)
    \/ HandlerEnd

vars == <<storeVars, schedVars, accessVars, arch_entities>>

\* The store under add, remove and get_mut.
Init == StoreInit /\ SchedIdle

Next ==
    \/ \E state \in States : Add(state) /\ UNCHANGED <<schedVars, accessVars, arch_entities>>
    \/ \E entity \in ProbeIds : Remove(entity) /\ UNCHANGED <<schedVars, accessVars, arch_entities>>
    \/ \E entity \in ProbeIds, c \in CompTypes, v \in Vals :
            GetMut(entity, c, v) /\ UNCHANGED <<schedVars, accessVars, arch_entities>>

Spec == Init /\ [][Next]_vars

\* The store under add of every state type and remove.
RegistryNext ==
    \/ \E state \in RegistryStates : Add(state) /\ UNCHANGED <<schedVars, accessVars, arch_entities>>
    \/ \E entity \in ProbeIds : Remove(entity) /\ UNCHANGED <<schedVars, accessVars, arch_entities>>

SpecRegistry == Init /\ [][RegistryNext]_vars

\* The store after first_adds adds of an Archetype1 state with value 0.
RECURSIVE FilledArchetype(_)
FilledArchetype(first_adds) ==
    IF first_adds = 0 THEN ArchetypeNew(component_infos("Archetype1"))
    ELSE add_entity_raw(FilledArchetype(first_adds - 1), (1 :> 0)).arch

\* A store one archetype of which is at most two adds below its capacity.
SlotsInit ==
    /\ \E first_adds \in (MAX_ENTITIES - 2)..MAX_ENTITIES :
            /\ archetypes = <<FilledArchetype(first_adds)>>
            /\ n_add = first_adds
    /\ archetypes_by_types = ("Archetype1" :> 0)
    /\ archetypes_by_layout = (<<1>> :> 0)
    /\ component_to_archetypes_map = (1 :> <<0>>)
    /\ drop_calls = EmptyMap
    /\ add_calls = EmptyMap
    /\ n_ops = 0
    /\ n_remove_true = 0
    /\ last = [op |-> "new"]
    /\ SchedIdle

\* The states added to the archetype close to its capacity.
SlotsStates == {state \in RegistryStates : state.ty = "Archetype1"}

SlotsNext ==
    \/ \E state \in SlotsStates : Add(state) /\ UNCHANGED <<schedVars, accessVars, arch_entities>>
    \/ \E state \in SlotsStates : AddOutOfSlots(state) /\ UNCHANGED <<schedVars, accessVars, arch_entities>>
    \/ \E entity \in ProbeIds : Remove(entity) /\ UNCHANGED <<schedVars, accessVars, arch_entities>>

\* The store under add and remove, from an archetype close to its capacity.
SpecSlots == SlotsInit /\ [][SlotsNext]_vars

\* partition_parallel_systems on the systems of test_optimization.
SpecOptimization == OptimizationInit /\ [][PartitionNext]_vars

AnyNext ==
    \/ \E state \in States : AddAny(state) /\ UNCHANGED <<schedVars, accessVars, arch_entities>>
    \/ \E entity \in ProbeIds : Remove(entity) /\ UNCHANGED <<schedVars, accessVars, arch_entities>>

\* The store under add of wrapped states and remove.
SpecAny == Init /\ [][AnyNext]_vars

\* ArchetypeEntities::allocate_slot; the panic at capacity leaves it as it is.
EntitiesAllocate ==
    /\ arch_entities' = entities_allocate_slot(arch_entities).occupied
    /\ UNCHANGED <<storeVars, schedVars, accessVars>>

\* ArchetypeEntities::free(entity_id).
EntitiesFree(entity_id) ==
    /\ arch_entities' = entities_free(arch_entities, entity_id).occupied
    /\ UNCHANGED <<storeVars, schedVars, accessVars>>

EntitiesNext ==
    \/ EntitiesAllocate
    \/ \E entity_id \in 0..U32_MAX : EntitiesFree(entity_id)

\* The slot set of one archetype under allocate_slot and free.
SpecEntities == Init /\ [][EntitiesNext]_vars

\* A handler's calls on the SystemAccess of a system or of storage.access().
SpecAccess == Init /\ [][AccessNext]_vars

\* dispatch on a store with one entity.
SpecSeq == SeqInit /\ [][SeqNext]_vars

\* dispatch_par on a store with one entity.
SpecPar == ParInit /\ [][ParNext]_vars

\* partition_parallel_systems on every slice of systems.
SpecPartition == PartitionInit /\ [][PartitionNext]_vars

\* The function runs on the calling thread without waiting for anything: a
\* step that can be taken is taken.
SpecPartitionLive == PartitionInit /\ [][PartitionNext]_vars /\ WF_vars(PartitionNext)


(***************************************************************************)
(* Properties.                                                             *)
(***************************************************************************)
\* Every entity id a call can name within the bounds.
AllIds == {EntityId(a, i) : a \in 0..MaxOps, i \in 0..(MaxOps + 1)}

\* Two systems conflict: a component type declared by both, Write in one.
DeclaredConflict(i, j) ==
    \E ty \in (DOMAIN systems[i + 1]) \cap (DOMAIN systems[j + 1]) :
        systems[i + 1][ty] \/ systems[j + 1][ty]

\* The index (from 1) of the batch of parallel_runs that holds system i.
BatchOf(i) ==
    CHOOSE b \in 1..Len(parallel_runs) : i \in Range(parallel_runs[b].systems)

Running(i) == task[i + 1] = "running"

Started(i) == task[i + 1] \in {"running", "done"}

\* C1: during dispatch_par no two conflicting systems have their handlers
\* executing at the same time, and every system of an earlier batch has
\* finished before any system of a later batch starts.
C1_ConflictingSystemsNeverOverlap ==
    dp_pc = "scope" =>
        /\ \A i \in SysIds, j \in SysIds :
                (i # j /\ Running(i) /\ Running(j)) => ~DeclaredConflict(i, j)
        /\ \A i \in SysIds, j \in SysIds :
                (BatchOf(i) < BatchOf(j) /\ Started(j)) => task[i + 1] = "done"

\* C2: partition_parallel_systems returns batches in which no two distinct
\* member systems conflict, for every list of systems.
C2_BatchesConflictFree ==
    part_pc = "done" =>
        \A b \in 1..Len(parallel_runs) :
            \A p \in 1..Len(parallel_runs[b].systems), q \in 1..Len(parallel_runs[b].systems) :
                p # q => ~DeclaredConflict(parallel_runs[b].systems[p],
                                           parallel_runs[b].systems[q])

\* A returned partition with a batch of two systems beside another batch.
C2_Witness ==
    /\ part_pc = "done"
    /\ Len(parallel_runs) >= 2
    /\ \E b \in 1..Len(parallel_runs) : Len(parallel_runs[b].systems) >= 2

\* The archetypes after the handler of system i has run alone on archs.
RECURSIVE RunWrites(_, _, _)
RunWrites(archs, i, tys) ==
    IF tys = <<>> THEN archs
    ELSE RunWrites(
            [archs EXCEPT ![SchedEntity.archetype_id + 1] =
                ArchetypeSet(@, Head(tys), SchedEntity.id,
                    HandlerValue(i, ArchetypeGet(@, Head(tys), SchedEntity.id)[1]))],
            i, Tail(tys))

RECURSIVE RunInOrder(_, _)
RunInOrder(archs, order) ==
    IF order = <<>> THEN archs
    ELSE RunInOrder(RunWrites(archs, Head(order), WriteComps(systems[Head(order) + 1])),
                    Tail(order))

\* The sequential orders that respect the batch order.
RECURSIVE BatchOrders(_)
BatchOrders(runs) ==
    IF runs = <<>> THEN {<<>>}
    ELSE {p \o q : p \in Perms(Range(Head(runs).systems)), q \in BatchOrders(Tail(runs))}

\* C3: when dispatch_par has returned, the component values in the store are
\* those of running the handlers one at a time in some order that has every
\* system of a batch before every system of a later batch.
C3_EqualsSomeBatchOrder ==
    dp_pc = "returned" =>
        \E order \in BatchOrders(parallel_runs) :
            archetypes = RunInOrder(init_archetypes, order)

\* C4: dispatch starts the handlers in the order of the slice, one at a time
\* and each once, all of them by the time it returns, and each starts with
\* an access object of its own on which nothing is borrowed, while no
\* access object of another system exists.
C4_DispatchInOrderOnceFresh ==
    /\ \A k \in 1..Len(run_order) : run_order[k] = k - 1
    /\ \A i \in SysIds : run_count[i + 1] <= 1
    /\ \A i \in SysIds, j \in SysIds : (Running(i) /\ Running(j)) => i = j
    /\ \A i \in SysIds, j \in SysIds : (i < j /\ Started(j)) => task[i + 1] = "done"
    /\ \A i \in SysIds :
            (Running(i) /\ hpc[i + 1] = 0) =>
                /\ DOMAIN access[i + 1] = DOMAIN systems[i + 1]
                /\ \A ty \in DOMAIN access[i + 1] : access[i + 1][ty].borrow = 0
    /\ \A i \in SysIds, j \in SysIds : (Running(i) /\ i # j) => access[j + 1] = NoAccess
    /\ dp_pc = "returned" =>
            \A i \in SysIds : task[i + 1] = "done" /\ run_count[i + 1] = 1

\* dispatch has returned from two systems, the first of which left a write
\* view borrowed until its handler returned.
C4_Witness ==
    /\ dp_pc = "returned"
    /\ Len(systems) = 2
    /\ run_order = <<0, 1>>
    /\ WriteComps(systems[1]) # <<>>
    /\ WriteComps(systems[2]) # <<>>

\* C5: dispatch_par returns only after every handler has completed, having
\* run every system's handler exactly once and none twice; with an empty
\* slice it returns having run nothing.
C5_ReturnsAfterAllRanOnce ==
    /\ \A i \in SysIds : run_count[i + 1] <= 1
    /\ dp_pc = "returned" =>
            /\ \A i \in SysIds :
                    /\ task[i + 1] = "done"
                    /\ run_count[i + 1] = 1
                    /\ hpc[i + 1] = 2 * Len(WriteComps(systems[i + 1]))
            /\ Len(run_order) = Len(systems)
            /\ Range(run_order) = SysIds

\* dispatch_par has returned from two systems placed in different batches.
C5_Witness ==
    /\ dp_pc = "returned"
    /\ Len(systems) = 2
    /\ Len(parallel_runs) = 2
    /\ \A i \in SysIds : run_count[i + 1] = 1

\* C6: count_entities() equals the number of add calls minus the number of
\* remove calls that returned true.
C6_CountIsAddsMinusTrueRemoves == count_entities = n_add - n_remove_true

\* C7: after a remove(e) that returned true, or that found e live, e is not
\* contained and get of every component is None; an entity that is not
\* contained becomes contained, and a get that is None becomes a value, only
\* by an add that returns that entity; and a remove changes neither the
\* presence nor a component value of any other entity.
C7_RemovedStaysAbsentOthersKept ==
    [][ /\ \A e \in AllIds :
            (/\ last'.op = "remove"
             /\ n_ops' = n_ops + 1
             /\ last'.entity = e
             /\ (last'.ret \/ last'.was_present)) =>
                /\ ~Contains(e)'
                /\ \A c \in CompTypes : Get(e, c)' = None
                /\ \A o \in AllIds \ {e} :
                        /\ Contains(o)' = Contains(o)
                        /\ \A c \in CompTypes : Get(o, c)' = Get(o, c)
        /\ \A e \in AllIds :
            ((~Contains(e) /\ Contains(e)')
                \/ (\E c \in CompTypes : Get(e, c) = None /\ Get(e, c)' # None)) =>
                (last'.op = "add" /\ n_ops' = n_ops + 1 /\ last'.entity = e)
      ]_vars

\* A remove has just returned true while another entity is live and readable.
C7_Witness ==
    /\ last.op = "remove"
    /\ last.ret
    /\ ~Contains(last.entity)
    /\ \E o \in ProbeIds : o # last.entity /\ Contains(o) /\ Get(o, 1) # None

\* C8: remove of a live entity returns true; a remove of the entity the call
\* before removed returns false and leaves the store as it was.
C8_RemoveTwiceTrueThenFalse ==
    [][ \A e \in AllIds :
            (last'.op = "remove" /\ n_ops' = n_ops + 1 /\ last'.entity = e) =>
                /\ Contains(e) => last'.ret
                /\ (last.op = "remove" /\ last.entity = e /\ last.was_present) =>
                        /\ ~last'.ret
                        /\ archetypes' = archetypes
                        /\ drop_calls' = drop_calls
      ]_vars

\* The lowest slot of the archetype with index a that is not occupied.
LowestUnoccupied(a) ==
    IF a < Len(archetypes)
    THEN Min({i \in 0..archetypes[a + 1].total_slot_count :
                ~is_present(archetypes[a + 1], i)})
    ELSE 0

\* C9: add returns the lowest slot of the archetype that is not occupied at
\* the call (so the k-th add without removals gets slot k - 1), never an
\* occupied one.
C9_AllocatesLowestUnoccupied ==
    [][ \A e \in AllIds :
            (last'.op = "add" /\ n_ops' = n_ops + 1 /\ last'.entity = e) =>
                /\ ~Contains(e)
                /\ e.id = LowestUnoccupied(e.archetype_id)
      ]_vars

\* C10: after add(s) returned e, get::<C>(e) is the value s holds for C, for
\* every component of s, whatever the slot of e was used for before.
C10_AddedEntityShowsItsState ==
    last.op = "add" =>
        \A c \in DOMAIN last.state.vals :
            Get(last.entity, c) = Some(last.state.vals[c])

\* The component types of the archetype with index a.
LayoutOf(a) ==
    {archetypes[a + 1].components[i].info.type_id :
        i \in 1..Len(archetypes[a + 1].components)}

\* C11: for every live entity e and every component type C, get::<C>(e)
\* returns a value exactly when C is a component type of e's archetype.
C11_GetDefinedIffInLayout ==
    \A e \in ProbeIds :
        Contains(e) =>
            \A c \in CompTypes : (Get(e, c) # None) <=> (c \in LayoutOf(e.archetype_id))

\* A live entity whose archetype holds component 1 and not component 2.
C11_Witness ==
    \E e \in ProbeIds :
        /\ Contains(e)
        /\ LayoutOf(e.archetype_id) = {1}
        /\ Get(e, 1) # None
        /\ Get(e, 2) = None

\* C12: the registry holds at most one archetype per set of component types;
\* the state-type map and the layout map point every key to an archetype
\* with the key's component set, so two state types with the same component
\* set, in any field order, resolve to the same archetype index.
C12_OneArchetypePerComponentSet ==
    /\ \A a \in 0..(Len(archetypes) - 1), b \in 0..(Len(archetypes) - 1) :
            a # b => LayoutOf(a) # LayoutOf(b)
    /\ \A S \in DOMAIN archetypes_by_types :
            /\ archetypes_by_types[S] < Len(archetypes)
            /\ LayoutOf(archetypes_by_types[S]) = Range(component_type_ids(S))
    /\ \A L \in DOMAIN archetypes_by_layout :
            /\ archetypes_by_layout[L] < Len(archetypes)
            /\ LayoutOf(archetypes_by_layout[L]) = Range(L)
    /\ \A S \in DOMAIN archetypes_by_types, T \in DOMAIN archetypes_by_types :
            Range(component_type_ids(S)) = Range(component_type_ids(T)) =>
                archetypes_by_types[S] = archetypes_by_types[T]

\* Both field orders of the components 1 and 2 were added, beside another
\* archetype.
C12_Witness ==
    /\ {"Archetype12", "Archetype21"} \subseteq DOMAIN archetypes_by_types
    /\ archetypes_by_types["Archetype12"] = archetypes_by_types["Archetype21"]
    /\ Len(archetypes) = 2

\* C13: component_to_archetypes_map[c] lists exactly the indices of the
\* archetypes whose component set includes c, each once; a component type of
\* no archetype has no entry or an empty one.
C13_ReverseIndexExact ==
    \A c \in CompTypes :
        LET listed == IF c \in DOMAIN component_to_archetypes_map
                      THEN component_to_archetypes_map[c] ELSE <<>>
        IN  /\ Range(listed) = {a \in 0..(Len(archetypes) - 1) : c \in LayoutOf(a)}
            /\ Cardinality(Range(listed)) = Len(listed)

\* Component 2 belongs to two archetypes and component 1 to one of them.
C13_Witness ==
    /\ 2 \in DOMAIN component_to_archetypes_map
    /\ Len(component_to_archetypes_map[2]) = 2
    /\ 1 \in DOMAIN component_to_archetypes_map
    /\ Len(component_to_archetypes_map[1]) = 1

\* C14: the archetype list only grows and an archetype keeps its index and
\* component set, also under remove; a state type keeps the index it
\* resolved to; an add returns the index its state type resolves to; and a
\* new archetype is made only for a component set no archetype has, at the
\* next index.
C14_ArchetypeIndicesStable ==
    [][ /\ Len(archetypes') >= Len(archetypes)
        /\ \A a \in 0..(Len(archetypes) - 1) : LayoutOf(a)' = LayoutOf(a)
        /\ \A S \in DOMAIN archetypes_by_types :
                /\ S \in DOMAIN archetypes_by_types'
                /\ archetypes_by_types'[S] = archetypes_by_types[S]
        /\ (last'.op = "add" /\ n_ops' = n_ops + 1) =>
                /\ last'.entity.archetype_id = archetypes_by_types'[last'.state.ty]
                /\ IF \E a \in 0..(Len(archetypes) - 1) :
                            LayoutOf(a) = Range(component_type_ids(last'.state.ty))
                   THEN Len(archetypes') = Len(archetypes)
                   ELSE /\ Len(archetypes') = Len(archetypes) + 1
                        /\ last'.entity.archetype_id = Len(archetypes)
        /\ (last'.op = "remove" /\ n_ops' = n_ops + 1) =>
                Len(archetypes') = Len(archetypes)
      ]_vars

\* After a remove, an add has returned archetype 0 again, a second
\* archetype existing.
C14_Witness ==
    /\ last.op = "add"
    /\ last.entity.archetype_id = 0
    /\ Len(archetypes) = 2
    /\ n_add = 3
    /\ n_ops = 4

\* An id sequence ascends strictly by (archetype index, slot).
AscendingIds(s) ==
    \A i \in 1..(Len(s) - 1) :
        \/ s[i].archetype_id < s[i + 1].archetype_id
        \/ s[i].archetype_id = s[i + 1].archetype_id /\ s[i].id < s[i + 1].id

EntitiesWithAll(D) ==
    LET Has(e) == D \subseteq {archetypes[e.archetype_id + 1].components[i].info.type_id :
                                   i \in 1..Len(archetypes[e.archetype_id + 1].components)}
    IN  SelectSeq(AllEntitiesIter, Has)

\* C16: for every non-empty component set requested from storage.access(),
\* in whatever order the hash containers iterate, component_set returns and
\* into_entities_iter yields the live entities whose archetype has every
\* component of the set, once each, with their own archetype index, in
\* ascending (archetype index, slot) order.
C16_SetIterYieldsMatchingEntities ==
    \A set \in AccessMaps \ {EmptyMap} :
        \A order \in Perms(DOMAIN set) :
            \A filtered \in Perms(archetype_set_for(AccessAll, order).result) :
                LET got == component_set(AccessAll, set, order, filtered)
                IN  /\ got.panic = ""
                    /\ into_entities_iter(got.set_access).panic = ""
                    /\ into_entities_iter(got.set_access).items = EntitiesWithAll(DOMAIN set)

\* The references a view of c is to yield: one per live entity whose
\* archetype has c, ascending.
ComponentsOf(c) ==
    LET ids == EntitiesWithAll({c})
    IN  [i \in 1..Len(ids) |-> [entity |-> ids[i], value |-> Get(ids[i], c)[1]]]

\* C17: for every component type c, the view of c a system is given yields
\* one reference per live entity whose archetype has c, ascending,
\* count_entities() of them, and the empty sequence when no archetype has c.
C17_ViewIterYieldsEveryComponent ==
    \A c \in CompTypes :
        LET generic == global_component_by_id(c, FALSE)
            got == GlobalComponentIter(generic, c)
        IN  /\ got.panic = ""
            /\ got.items = ComponentsOf(c)
            /\ Len(got.items) = generic_count_entities(generic.filtered_archetype_ids)

\* The step is a call of the running handler.
HandlerCalls == acc_pc = "running" /\ n_req' = n_req + 1

\* The component types the access has a cell for.
Declared == DOMAIN sys_access.global_components

\* C18: inside a system run by dispatch, a component, component_mut or
\* component_set call that names a component type the system did not declare
\* panics with "Component not available" and returns no view.
C18_UndeclaredRequestNotAvailable ==
    [][ (HandlerCalls /\ ~sys_access.allowed_all_components) =>
            /\ (last'.op \in {"component", "component_mut"} /\ last'.ty \notin Declared) =>
                    (last'.panic = NotAvailable /\ acc_pc' = "panicked")
            /\ (last'.op = "component_set" /\ ~(DOMAIN last'.set \subseteq Declared)) =>
                    (last'.panic = NotAvailable /\ acc_pc' = "panicked")
      ]_vars

\* The set names a component as mutable that the access holds as read-only.
AsksMutableOfReadOnly(set) ==
    \E ty \in (DOMAIN set) \cap Declared :
        set[ty] /\ ~sys_access.global_components[ty].mutable

SetUnborrowed(set) ==
    \A ty \in (DOMAIN set) \cap Declared : sys_access.global_components[ty].borrow = 0

BorrowPanics == {AlreadyBorrowed, MutablyBorrowed}

\* C20: within one access object, component_mut::<C>() called while a write
\* view or a read view of C is held, and component::<C>() called while a
\* write view of C is held, panic with the already-borrowed error.
C20_BorrowedComponentRefused ==
    [][ HandlerCalls =>
            /\ (/\ last'.op = "component_mut"
                /\ last'.ty \in Declared
                /\ sys_access.global_components[last'.ty].borrow # 0) =>
                    (last'.panic \in BorrowPanics /\ acc_pc' = "panicked")
            /\ (/\ last'.op = "component"
                /\ last'.ty \in Declared
                /\ sys_access.global_components[last'.ty].borrow = -1) =>
                    (last'.panic \in BorrowPanics /\ acc_pc' = "panicked")
      ]_vars

\* A component call was refused while a write view of the component was
\* held.
C20_Witness ==
    /\ last.op = "component"
    /\ last.borrow = -1
    /\ last.panic = MutablyBorrowed
    /\ acc_pc = "panicked"

\* The holders of a read borrow and of a write borrow of component ty: the
\* views the handler took and the guards of the set it holds.
Readers(ty) == views[ty].r + (IF SetGuard(ty) = 1 THEN 1 ELSE 0)

Writers(ty) == views[ty].w + (IF SetGuard(ty) = -1 THEN 1 ELSE 0)

\* C21: in every state of an access object a component has no view, only
\* read views, or exactly one write view, and its cell is unborrowed exactly
\* when it has no view; whether component or component_mut of a component
\* returns a view depends on the views of that component alone: component
\* returns one unless a write view is held, component_mut returns one when
\* no view is held (and the component may be mutated).
C21_ReadersOrOneWriter ==
    /\ [](\A ty \in CompTypes :
            /\ Writers(ty) <= 1
            /\ Writers(ty) = 1 => Readers(ty) = 0
            /\ ty \in Declared =>
                    sys_access.global_components[ty].borrow =
                        IF Writers(ty) = 1 THEN -1 ELSE Readers(ty)
            /\ ty \notin Declared => (Readers(ty) = 0 /\ Writers(ty) = 0))
    /\ [][ HandlerCalls =>
            /\ (last'.op = "component"
                    /\ (last'.ty \in Declared \/ sys_access.allowed_all_components)) =>
                    (last'.panic = "" <=> Writers(last'.ty) = 0)
            /\ (last'.op = "component_mut"
                    /\ (last'.ty \in Declared \/ sys_access.allowed_all_components)) =>
                    (last'.panic = "" <=>
                        /\ Writers(last'.ty) = 0
                        /\ Readers(last'.ty) = 0
                        /\ last'.ty \in Declared =>
                                sys_access.global_components[last'.ty].mutable)
      ]_vars

\* Two read views of component 1 and a write view of component 2 are held
\* together.
C21_Witness ==
    /\ acc_pc = "running"
    /\ views[1].r = 2
    /\ views[2].w = 1

\* The cells of the store that hold a component needing a drop.
DropCells ==
    {<<a, k, id>> \in (0..(Len(archetypes) - 1)) \X (0..1) \X (0..(MAX_ENTITIES - 1)) :
        /\ k \in drop_columns(archetypes[a + 1])
        /\ id < archetypes[a + 1].total_slot_count}

\* The number of calls counted for a cell.
Calls(calls, cell) == IF cell \in DOMAIN calls THEN calls[cell] ELSE 0

\* The drop_func calls on a cell when the store is destroyed in this state.
DropsAtDestruction(cell) ==
    IF <<cell[2], cell[3]>> \in ArchetypeDrop(archetypes[cell[1] + 1]) THEN 1 ELSE 0

\* C22: when the store is destroyed after any sequence of add and remove,
\* drop_func has been called on every cell of a drop-requiring component once
\* per value added to it, the calls of remove and of the destruction together.
C22_DropOncePerValue ==
    \A cell \in DropCells \cup DOMAIN drop_calls \cup DOMAIN add_calls :
        Calls(drop_calls, cell)
            + (IF cell \in DropCells THEN DropsAtDestruction(cell) ELSE 0)
        = Calls(add_calls, cell)

OccupiedBits(arch) == [i \in 1..arch.total_slot_count |-> is_present(arch, i - 1)]

\* The most slots of one archetype that can be live together.
MaxLiveSlots == Min({U32_MAX, MAX_BITVEC_BITS})

\* C24: an add panics with the out-of-slots error exactly when one more live
\* slot in its archetype would exceed min(2^32 - 1, bitset_max); a slot it
\* hands out satisfies slot + 1 <= 2^32 - 1; a failed allocation leaves the
\* occupancy as it was.  The allocator of ArchetypeEntities decides alike on
\* the same occupancy.
C24_OutOfSlotsExactlyAtCapacity ==
    [][ (last'.op = "add" /\ n_ops' = n_ops + 1) =>
            LET reg == Registered(last'.state)
                arch_id == get_or_create_archetype_id(last'.state)
                arch == reg.archetypes[arch_id + 1]
                live == Cardinality(occupied_ids(arch))
                panics == "panic" \in DOMAIN last'
            IN  /\ panics <=> live + 1 > MaxLiveSlots
                /\ ~entities_allocate_slot(OccupiedBits(arch)).ok <=> live + 1 > MaxLiveSlots
                /\ ~panics => last'.entity.id + 1 <= U32_MAX
                /\ panics => occupied_ids(archetypes'[arch_id + 1]) = occupied_ids(arch)
      ]_vars

\* An id that names no entity of the store ever added: its archetype index
\* does not exist or its slot was never allocated.
NeverAdded(e) ==
    \/ e.archetype_id >= Len(archetypes)
    \/ e.id >= archetypes[e.archetype_id + 1].total_slot_count

\* C25: for an id whose archetype index does not exist, whose slot was never
\* allocated, or that is EntityId::NULL, contains is false and get and
\* get_mut are None; remove of such an id returns false and leaves the store
\* as it was; add never returns EntityId::NULL.
C25_LookupsTotal ==
    [][ /\ NeverAdded(NULL)
        /\ \A e \in ProbeIds \cup {NULL} :
                NeverAdded(e) => (~Contains(e) /\ \A c \in CompTypes : Get(e, c) = None)
        /\ (last'.op = "remove" /\ n_ops' = n_ops + 1 /\ NeverAdded(last'.entity)) =>
                /\ ~last'.ret
                /\ archetypes' = archetypes
                /\ drop_calls' = drop_calls
        /\ (last'.op = "add" /\ n_ops' = n_ops + 1) => last'.entity # NULL
      ]_vars

\* C26: on a view of component C, get and get_mut of an id that has no value
\* of C (an entity that was removed, an archetype without C, an archetype
\* index out of range such as that of EntityId::NULL) are None and do not
\* panic, and contains is false exactly for the ids that are not live.
C26_ViewLookupsTotal ==
    \A e \in ProbeIds \cup {NULL}, c \in CompTypes :
        /\ view_contains(e) <=> Contains(e)
        /\ Get(e, c) = None =>
                /\ view_get(e, c) = [panic |-> "", ref |-> None]
                /\ view_get_mut(e, c) = [panic |-> "", ref |-> None]

\* C27: for the five systems of test_optimization, with writes {1}, {2, 3},
\* {1, 4}, {0, 3} and {0, 1, 4}, partition_parallel_systems returns the
\* three batches [1, 4], [2], [3, 0] in that order, and no two members of a
\* batch it returns declare a component one of them writes.
C27_TestOptimizationBatches ==
    part_pc = "done" =>
        /\ systems = TestSystems =>
                [i \in 1..Len(parallel_runs) |-> parallel_runs[i].systems]
                    = << <<1, 4>>, <<2>>, <<3, 0>> >>
        /\ \A r \in 1..Len(parallel_runs) :
              \A i, j \in 1..Len(parallel_runs[r].systems) :
                 i # j => ~systems_do_conflict(systems[parallel_runs[r].systems[i] + 1],
                                               systems[parallel_runs[r].systems[j] + 1])

\* partition_parallel_systems has returned for the five systems of the test.
C27_Witness ==
    /\ part_pc = "done"
    /\ systems = TestSystems
    /\ Len(parallel_runs) = 3

\* C28: in every state every column of an archetype holds exactly as many
\* values as the highest slot count the archetype has reached (the byte
\* length is that count times the component size): an add into a recycled
\* slot overwrites in place, only a new slot appends.
C28_ColumnLengthIsSlotCount ==
    \A a \in 1..Len(archetypes) :
        \A k \in DOMAIN archetypes[a].components :
            Len(archetypes[a].components[k].data) = archetypes[a].total_slot_count

\* The value of component ty of the entity after the handlers of the first n
\* systems of the slice ran one after the other, each writing
\* HandlerValue of the value its view showed.
RECURSIVE ValueAfter(_, _)
ValueAfter(ty, n) ==
    IF n = 0 THEN ArchetypeGet(init_archetypes[1], ty, SchedEntity.id)[1]
    ELSE IF ty \in DOMAIN systems[n] /\ systems[n][ty]
    THEN HandlerValue(n - 1, ValueAfter(ty, n - 1))
    ELSE ValueAfter(ty, n - 1)

C30_DispatchChangesDeclaredValuesOnly ==
    [][ (acc_pc = "running" /\ ~sys_access.allowed_all_components) =>
            /\ archetypes_by_types' = archetypes_by_types
            /\ archetypes_by_layout' = archetypes_by_layout
            /\ component_to_archetypes_map' = component_to_archetypes_map
            /\ Len(archetypes') = Len(archetypes)
            /\ count_entities' = count_entities
            /\ \A a \in 1..Len(archetypes) :
                  /\ archetypes'[a].total_slot_count = archetypes[a].total_slot_count
                  /\ archetypes'[a].free_slots = archetypes[a].free_slots
                  /\ archetypes'[a].components_by_types = archetypes[a].components_by_types
                  /\ \A k \in DOMAIN archetypes[a].components :
                        archetypes'[a].components[k] # archetypes[a].components[k] =>
                            LET ty == archetypes[a].components[k].info.type_id
                            IN  /\ ty \in Declared
                                /\ sys_access.global_components[ty].mutable
                                /\ archetypes'[a].components[k].info
                                        = archetypes[a].components[k].info
      ]_vars

\* The handler of a system that declared component 2 with with_mut and
\* component 1 with with has changed a value of component 2.
C30_Witness ==
    /\ acc_pc = "running"
    /\ ~sys_access.allowed_all_components
    /\ Declared = {1, 2}
    /\ ~sys_access.global_components[1].mutable
    /\ last.op = "get_mut"
    /\ last.ty = 2
    /\ last.panic = ""
    /\ Get(last.entity, 2) = Some(1)

\* C31: iterating the slot set of an archetype yields exactly the slots
\* contains is true for, each once and ascending, count() of them; contains
\* is false for every slot past the highest one ever allocated.
C31_IterYieldsContainedAscending ==
    LET items == iter_ones(arch_entities)
    IN  /\ Range(items) = {id \in 0..U32_MAX : entities_contains(arch_entities, id)}
        /\ \A i, j \in 1..Len(items) : i < j => items[i] < items[j]
        /\ Len(items) = entities_count(arch_entities)
        /\ \A id \in Len(arch_entities)..U32_MAX : ~entities_contains(arch_entities, id)

\* Slots 0 and 2 are occupied and slot 1 between them was freed.
C31_Witness ==
    /\ Len(arch_entities) >= 3
    /\ iter_ones(SubSeq(arch_entities, 1, 3)) = <<0, 2>>
    /\ entities_count(arch_entities) >= 2

\* The archetype index a direct add of a state of type ty resolves to.
DirectIndex(ty) ==
    IF ty \in DOMAIN archetypes_by_types THEN archetypes_by_types[ty]
    ELSE IF ArchetypeLayoutNew(component_type_ids(ty)) \in DOMAIN archetypes_by_layout
    THEN archetypes_by_layout[ArchetypeLayoutNew(component_type_ids(ty))]
    ELSE Len(archetypes)

\* C32: an add of a state wrapped as AnyState lands in the archetype
\* a direct add of a state of that type resolves to, creates an archetype only
\* when a direct add would, and the components of the entity it returns read
\* back as the values of the state.
C32_AnyStateAddsAsItsState ==
    [][ (last'.op = "add" /\ n_ops' = n_ops + 1) =>
            LET st == last'.state
                e == last'.entity
            IN  /\ e.archetype_id = DirectIndex(st.ty)
                /\ Len(archetypes') = Len(archetypes)
                        + (IF DirectIndex(st.ty) = Len(archetypes) THEN 1 ELSE 0)
                /\ \A c \in DOMAIN st.vals :
                        ArchetypeGet(archetypes'[e.archetype_id + 1], c, e.id)
                            = Some(st.vals[c])
      ]_vars

\* C33: Archetype::remove of a slot id at or above total_slot_count returns
\* false and leaves the archetype as it was: len() and is_present of every
\* slot are the same, no drop function runs, and the next allocation returns
\* the slot it would have returned before.
C33_RemoveNeverAllocatedNoEffect ==
    [][ (/\ last'.op = "remove"
         /\ n_ops' = n_ops + 1
         /\ last'.entity.archetype_id < Len(archetypes)
         /\ last'.entity.id >= archetypes[last'.entity.archetype_id + 1].total_slot_count) =>
            LET a == last'.entity.archetype_id + 1
            IN  /\ ~last'.ret
                /\ ArchetypeLen(archetypes'[a]) = ArchetypeLen(archetypes[a])
                /\ \A id \in 0..U32_MAX :
                        is_present(archetypes'[a], id) = is_present(archetypes[a], id)
                /\ drop_calls' = drop_calls
                /\ allocate_slot(archetypes'[a]).id = allocate_slot(archetypes[a]).id
      ]_vars

\* C34: the batches partition_parallel_systems returns partition the input:
\* every system index 0 .. n-1 is in exactly one batch, no other index is in
\* one, no batch is empty, and an empty input gives an empty result.
C34_BatchesPartitionInput ==
    part_pc = "done" =>
        LET members == Flatten(parallel_runs)
        IN  /\ Len(members) = Len(systems)
            /\ Range(members) = SysIds
            /\ \A b \in 1..Len(parallel_runs) : parallel_runs[b].systems # <<>>
            /\ (systems = <<>> => parallel_runs = <<>>)

\* Three systems were returned in two batches, one batch emptied and dropped.
C34_Witness ==
    /\ part_pc = "done"
    /\ Len(systems) = 3
    /\ Len(parallel_runs) = 2
    /\ Len(Flatten(parallel_runs)) = 3

\* The number of batches that hold a system.
NonEmptyBatches(runs) == Cardinality({b \in 1..Len(runs) : runs[b].systems # <<>>})

\* C35: the merge loop of partition_parallel_systems terminates for every
\* input, each iteration that merges leaving one non-empty batch fewer, and
\* every two batches it returns conflict on their merged access maps.
C35_MergeLoopTerminates ==
    /\ [][ (part_pc = "loop" /\ part_pc' = "loop") =>
                NonEmptyBatches(parallel_runs') = NonEmptyBatches(parallel_runs) - 1 ]_vars
    /\ [](part_pc = "done" =>
            \A a, b \in 1..Len(parallel_runs) :
                a # b => systems_do_conflict(parallel_runs[a].all_components,
                                             parallel_runs[b].all_components))
    /\ <>(part_pc = "done")

\* The loop has merged once and stopped with two batches in conflict left.
C35_Witness ==
    /\ part_pc = "done"
    /\ Len(parallel_runs) = 2
    /\ Len(parallel_runs[1].systems) + Len(parallel_runs[2].systems) = 3
    /\ systems_do_conflict(parallel_runs[1].all_components, parallel_runs[2].all_components)

\* The union of the access maps the systems of a batch declare: a component
\* is Write when a member declares it Write.
DeclaredUnion(members) ==
    [ty \in UNION {DOMAIN systems[members[m] + 1] : m \in 1..Len(members)} |->
        \E m \in 1..Len(members) :
            /\ ty \in DOMAIN systems[members[m] + 1]
            /\ systems[members[m] + 1][ty]]

\* C36: at every step of the partitioning the access map of each batch is
\* the union of the maps its member systems declare, Write where a member
\* declares Write; a loop iteration changes two batches only, emptying one
\* (systems and map) and appending its systems to the other; the final
\* retain changes no map.
C36_BatchMapIsUnionOfMembers ==
    /\ [](part_pc \in {"loop", "done"} =>
            \A b \in 1..Len(parallel_runs) :
                parallel_runs[b].all_components = DeclaredUnion(parallel_runs[b].systems))
    /\ [][ (part_pc = "loop" /\ part_pc' = "loop") =>
                \E from, to \in 1..Len(parallel_runs) :
                    /\ from # to
                    /\ Len(parallel_runs') = Len(parallel_runs)
                    /\ parallel_runs[from].systems # <<>>
                    /\ parallel_runs'[from] = [systems |-> <<>>, all_components |-> EmptyMap]
                    /\ parallel_runs'[to].systems
                            = parallel_runs[to].systems \o parallel_runs[from].systems
                    /\ \A b \in 1..Len(parallel_runs) :
                            b \notin {from, to} => parallel_runs'[b] = parallel_runs[b] ]_vars
    /\ [][ (part_pc = "loop" /\ part_pc' = "done") =>
                \A b \in 1..Len(parallel_runs') :
                    \E a \in 1..Len(parallel_runs) : parallel_runs'[b] = parallel_runs[a] ]_vars

\* In the loop: a batch was emptied into another, whose map now holds one
\* component as Write and another as Read.
C36_Witness ==
    /\ part_pc = "loop"
    /\ \E from, to \in 1..Len(parallel_runs) :
            /\ parallel_runs[from] = [systems |-> <<>>, all_components |-> EmptyMap]
            /\ Len(parallel_runs[to].systems) = 2
            /\ \E c, d \in DOMAIN parallel_runs[to].all_components :
                    parallel_runs[to].all_components[c] /\ ~parallel_runs[to].all_components[d]

\* The access maps in play: those the systems declare and those of the batches.
MapsInPlay ==
    {systems[i] : i \in 1..Len(systems)}
        \cup {parallel_runs[b].all_components : b \in 1..Len(parallel_runs)}

\* C37: systems_do_conflict(a, b) is true exactly when some component is a
\* key of both maps and Write in at least one of them; it is symmetric, false
\* for maps with no common component, and false for maps whose common
\* components are all Read in both.
C37_ConflictIffSharedWrite ==
    \A ma \in MapsInPlay, mb \in MapsInPlay :
        LET shared == (DOMAIN ma) \cap (DOMAIN mb)
        IN  /\ systems_do_conflict(ma, mb) = (\E c \in shared : ma[c] \/ mb[c])
            /\ systems_do_conflict(ma, mb) = systems_do_conflict(mb, ma)
            /\ shared = {} => ~systems_do_conflict(ma, mb)
            /\ (\A c \in shared : ~ma[c] /\ ~mb[c]) => ~systems_do_conflict(ma, mb)

\* The loop is comparing three maps: two share a component both read, two
\* share a component one of them writes, two share none.
C37_Witness ==
    /\ part_pc = "loop"
    /\ \E ma \in MapsInPlay, mb \in MapsInPlay, mc \in MapsInPlay :
            /\ (DOMAIN ma) \cap (DOMAIN mb) # {}
            /\ \A c \in (DOMAIN ma) \cap (DOMAIN mb) : ~ma[c] /\ ~mb[c]
            /\ \E c \in (DOMAIN mb) \cap (DOMAIN mc) : mb[c] /\ ~mc[c]
            /\ (DOMAIN ma) \cap (DOMAIN mc) = {}
            /\ ma # EmptyMap /\ mc # EmptyMap

\* C38: the layouts of two state types with the same component types in
\* different field orders are equal and have the same hash, the layouts of
\* state types with different component sets are unequal, and an entity added
\* lands in the archetype every state type with its component set resolves to.
C38_LayoutIgnoresFieldOrder ==
    /\ \A S \in DOMAIN archetypes_by_types, T \in DOMAIN archetypes_by_types :
            LET same_set == Range(component_type_ids(S)) = Range(component_type_ids(T))
            IN  /\ same_set =>
                        /\ ArchetypeLayoutNew(component_type_ids(S))
                                = ArchetypeLayoutNew(component_type_ids(T))
                        /\ hash_val(component_type_ids(S)) = hash_val(component_type_ids(T))
                        /\ archetypes_by_types[S] = archetypes_by_types[T]
                /\ ~same_set =>
                        /\ ArchetypeLayoutNew(component_type_ids(S))
                                # ArchetypeLayoutNew(component_type_ids(T))
                        /\ archetypes_by_types[S] # archetypes_by_types[T]
    /\ (last.op = "add" /\ last.entity # NULL) =>
            \A T \in DOMAIN archetypes_by_types :
                Range(component_type_ids(T)) = Range(component_type_ids(last.state.ty)) =>
                    last.entity.archetype_id = archetypes_by_types[T]

\* A state with the fields of Archetype12 in the other order was added after
\* an Archetype12 state, beside an archetype of another component set.
C38_Witness ==
    /\ {"Archetype12", "Archetype21", "Archetype1"} \subseteq DOMAIN archetypes_by_types
    /\ last.op = "add"
    /\ last.state.ty = "Archetype21"
    /\ last.entity.archetype_id = archetypes_by_types["Archetype12"]
    /\ component_type_ids("Archetype21") # component_type_ids("Archetype12")

\* C39: for an entity that is not live (removed, or its slot never
\* allocated) no component reference is obtained through entry or entry_mut:
\* entry is None or get of every component type is None, as
\* EntityStorage::get is for that entity.
C39_EntryOfLiveEntitiesOnly ==
    \A e \in ProbeIds, c \in CompTypes :
        ~Contains(e) =>
            /\ Get(e, c) = None
            /\ (entry(e) # None => EntryGet(entry(e)[1], c) = {None})

\* The cell of ty cannot be borrowed as component_set asks for it: the
\* system has no cell of ty, a writer holds it, or a write is asked for while
\* anyone holds it.
Unavailable(ty, mutable) ==
    \/ /\ ~sys_access.allowed_all_components
       /\ ty \notin DOMAIN sys_access.global_components
    \/ BorrowOf(sys_access, ty) = -1
    \/ mutable /\ BorrowOf(sys_access, ty) # 0

\* C40: while the handler holds a ComponentSetAccess every component of the
\* set is borrowed on the access in the mode asked for (a writer for those
\* marked mutable, a reader for the others); component_set fails and returns
\* no set when a component asked for is not available or is borrowed
\* incompatibly; once the set is dropped each of its components can be
\* borrowed again, those that were marked mutable for writing too.
C40_SetKeepsComponentsBorrowed ==
    /\ [](held_set # NoSet =>
            \A ty \in DOMAIN held_set.guards :
                /\ ty \in DOMAIN sys_access.global_components
                /\ IF held_set.guards[ty]
                   THEN sys_access.global_components[ty].borrow = -1
                   ELSE sys_access.global_components[ty].borrow >= 1)
    /\ [][ (last'.op = "component_set" /\ n_req' = n_req + 1) =>
                ((\E ty \in DOMAIN last'.set : Unavailable(ty, last'.set[ty])) =>
                    /\ last'.panic # ""
                    /\ held_set' = NoSet
                    /\ acc_pc' = "panicked") ]_vars
    /\ [][ (last'.op = "drop_set" /\ n_req' = n_req + 1) =>
                \A ty \in DOMAIN held_set.guards :
                    /\ component(sys_access', ty).panic = ""
                    /\ held_set.guards[ty] => component_mut(sys_access', ty).panic = "" ]_vars

\* The handler holds a set of one component marked mutable and one not, the
\* first borrowed by a writer and the second by a reader.
C40_Witness ==
    /\ acc_pc = "running"
    /\ held_set # NoSet
    /\ \E ty \in DOMAIN held_set.guards, other \in DOMAIN held_set.guards :
            /\ held_set.guards[ty]
            /\ ~held_set.guards[other]
            /\ sys_access.global_components[ty].borrow = -1
            /\ sys_access.global_components[other].borrow >= 1

====
